---- MODULE Spec2Model ----
(***************************************************************************)
(* The standalone YugabyteDB Docker proxy (scripts/proxy-server.js) as a    *)
(* state machine.  One action is one callback of the Node.js event loop,    *)
(* run to completion together with the promise reactions (microtasks) it    *)
(* queues: a request handler, the callback of a `docker ps` lookup, the     *)
(* callback of a `docker exec ... curl` fetch, a request's 60 s timer, a    *)
(* client disconnect, and the passage of time.                              *)
(*                                                                          *)
(* JavaScript strings are sequences of one-character strings.  A value of   *)
(* type `string | null` is a record [isNull, str].                          *)
(***************************************************************************)
EXTENDS Integers, Sequences, FiniteSets, TLC

VARIABLES
    now,              \* Date.now(), in milliseconds
    containerCache,   \* Map: cache key -> [value, expiry]
    inflightLookups,  \* Map: cache key -> the pending lookup (index in queries)
    queries,          \* every `docker ps` exec started so far, running or done
    req,              \* per request: the position of its handleProxy pipeline
    res,              \* per request: its http.ServerResponse
    wlog,             \* per request: every res.end() call made on its response
    call,             \* a function of the program applied on its own: [fn, arg]
    ret               \* what that call returned: [done, val]

vars == <<now, containerCache, inflightLookups, queries, req, res, wlog, call, ret>>

----------------------------------------------------------------------------
(* Program constants and model bounds *)

CACHE_TTL_MS == 10000

TIMEOUT_MS == 60000

\* Requests the listener receives in one run.
MaxReq == 3

\* Requests whose pipeline is open at the same time.
MaxOpen == 2

\* Number of fine-grained clock steps; after them time only jumps to timers.
MaxTicks == 2

\* Pieces an input text of the parser or of a rewriter is made of.
MaxChunks == 4

\* Header lines of an upstream response.
MaxHeaders == 2

\* Pieces of a request path, and of a target host.
MaxPieces == 3

TickMs == CACHE_TTL_MS \div 2

FineHorizon == MaxTicks * TickMs

Reqs == 1..MaxReq

----------------------------------------------------------------------------
(* Strings *)

Null == [isNull |-> TRUE, str |-> <<>>]

Str(s) == [isNull |-> FALSE, str |-> s]

\* JavaScript truthiness of a `string | null`.
Truthy(v) == ~v.isNull /\ v.str # <<>>

Digits == {"0", "1", "2", "3", "4", "5", "6", "7", "8", "9"}

Whitespace == {" ", "\n", "\t", "\r"}

StartsWith(s, p) == Len(s) >= Len(p) /\ SubSeq(s, 1, Len(p)) = p

Contains(s, p) == \E i \in 1..(Len(s) - Len(p) + 1) : SubSeq(s, i, i + Len(p) - 1) = p

\* Mutant of MapDelete: the entry stays.
MapDeleteNothing(m, k) == m

\* Map.prototype.delete (also: delete of an object property)
MapDelete(m, k) == [x \in DOMAIN m \ {k} |-> m[x]]

\* Map.prototype.set (also: assignment to an object property)
MapSet(m, k, v) == [x \in DOMAIN m \cup {k} |-> IF x = k THEN v ELSE m[x]]

RECURSIVE TrailingDigits(_)
TrailingDigits(s) ==
    IF s # <<>> /\ s[Len(s)] \in Digits
    THEN 1 + TrailingDigits(SubSeq(s, 1, Len(s) - 1))
    ELSE 0

RECURSIVE TrimStart(_)
TrimStart(s) == IF s # <<>> /\ s[1] \in Whitespace THEN TrimStart(Tail(s)) ELSE s

RECURSIVE TrimEnd(_)
TrimEnd(s) ==
    IF s # <<>> /\ s[Len(s)] \in Whitespace
    THEN TrimEnd(SubSeq(s, 1, Len(s) - 1))
    ELSE s

\* String.prototype.trim
Trim(s) == TrimEnd(TrimStart(s))

RECURSIVE escapeHtml(_)
escapeHtml(s) ==
    IF s = <<>> THEN <<>>
    ELSE (CASE s[1] = "&"  -> <<"&", "a", "m", "p", ";">>
            [] s[1] = "<"  -> <<"&", "l", "t", ";">>
            [] s[1] = ">"  -> <<"&", "g", "t", ";">>
            [] s[1] = "\"" -> <<"&", "q", "u", "o", "t", ";">>
            [] OTHER       -> <<s[1]>>) \o escapeHtml(Tail(s))

\* hostname.match(/^yb-(.+)-node\d+$/): the group, or null.
extractClusterName(hostname) ==
    LET n == Len(hostname)
        d == TrailingDigits(hostname)
        g == n - d - 5          \* index of the last character of the group
    IN  IF /\ d >= 1
           /\ g >= 4
           /\ SubSeq(hostname, 1, 3) = <<"y", "b", "-">>
           /\ SubSeq(hostname, g + 1, g + 5) = <<"-", "n", "o", "d", "e">>
        THEN Str(SubSeq(hostname, 4, g))
        ELSE Null

\* The cache key findContainer passes to lookupContainer.
CacheKey(targetHost) ==
    LET cluster == extractClusterName(targetHost)
    IN  IF Truthy(cluster)
        THEN <<"c", "l", "u", "s", "t", "e", "r", ":">> \o cluster.str
        ELSE <<"a", "n", "y", "-", "y", "b">>

\* Mutant of shellEscape: the single quotes are left as they are.
shellEscapeNone(s) == s

\* shellEscape(s): s.replace(/'/g, "'\\''").
RECURSIVE shellEscape(_)
shellEscape(s) ==
    IF s = <<>> THEN <<>>
    ELSE (IF s[1] = "'" THEN <<"'", "\\", "'", "'">> ELSE <<s[1]>>) \o shellEscape(Tail(s))

\* The command handleProxy hands to exec to fetch targetUrl inside `container`.
FetchCommand(container, targetUrl) ==
    <<"d", "o", "c", "k", "e", "r", " ", "e", "x", "e", "c", " ">> \o container \o <<" ", "c", "u", "r", "l", " ", "-", "s", "S", " ", "-", "i", " ", "-", "-", "c", "o", "n", "n", "e", "c", "t", "-", "t", "i", "m", "e", "o", "u", "t", " ", "5", " ", "-", "-", "m", "a", "x", "-", "t", "i", "m", "e", " ", "3", "0", " ", "'">>
    \o shellEscape(targetUrl) \o <<"'">>

\* The command findContainer hands to lookupContainer for targetHost.
LookupCommand(targetHost) ==
    LET cluster == extractClusterName(targetHost)
    IN  IF Truthy(cluster)
        THEN <<"d", "o", "c", "k", "e", "r", " ", "p", "s", " ", "-", "-", "f", "i", "l", "t", "e", "r", " ", "\"", "n", "a", "m", "e", "=", "^", "y", "b", "-">> \o cluster.str
             \o <<"-", "n", "o", "d", "e", "\"", " ", "-", "-", "f", "o", "r", "m", "a", "t", " ", "\"", "{", "{", ".", "N", "a", "m", "e", "s", "}", "}", "\"", " ", "|", " ", "h", "e", "a", "d", " ", "-", "1">>
        ELSE <<"d", "o", "c", "k", "e", "r", " ", "p", "s", " ", "-", "-", "f", "i", "l", "t", "e", "r", " ", "\"", "n", "a", "m", "e", "=", "^", "y", "b", "-", "\"", " ", "-", "-", "f", "o", "r", "m", "a", "t", " ", "\"", "{", "{", ".", "N", "a", "m", "e", "s", "}", "}", "\"", " ", "|", " ", "h", "e", "a", "d", " ", "-", "1">>

----------------------------------------------------------------------------
(* HTTP response parsing (curl -i output -> status + headers + body) *)

\* String.prototype.indexOf: the 0-based index of the first occurrence, or -1.
IndexOf(s, p) ==
    LET hits == {i \in 0..(Len(s) - Len(p)) : SubSeq(s, i + 1, i + Len(p)) = p}
    IN  IF hits = {} THEN -1 ELSE CHOOSE i \in hits : \A j \in hits : i <= j

\* String.prototype.slice(a, b) and slice(a), for 0 <= a.
Slice(s, a, b) == SubSeq(s, a + 1, IF b < Len(s) THEN b ELSE Len(s))

SliceFrom(s, a) == SubSeq(s, a + 1, Len(s))

\* String.prototype.split(sep), for a non-empty separator.
RECURSIVE Split(_, _)
Split(s, sep) ==
    LET i == IndexOf(s, sep)
    IN  IF i < 0 THEN <<s>>
        ELSE <<Slice(s, 0, i)>> \o Split(SliceFrom(s, i + Len(sep)), sep)

\* The length of the longest prefix of s made of characters of `class`.
RECURSIVE Run(_, _)
Run(s, class) == IF s # <<>> /\ s[1] \in class THEN 1 + Run(Tail(s), class) ELSE 0

\* parseInt(s, 10) of a non-empty string of digits.
RECURSIVE ParseInt(_)
ParseInt(s) ==
    LET DigitValue(c) == CHOOSE v \in 0..9 : <<"0", "1", "2", "3", "4", "5", "6", "7", "8", "9">>[v + 1] = c
    IN
    IF s = <<>> THEN 0 ELSE 10 * ParseInt(SubSeq(s, 1, Len(s) - 1)) + DigitValue(s[Len(s)])

\* Mutant of FindBoundary: LFLF is looked for only when there is no CRLFCRLF.
FindBoundaryCrlfFirst(raw) ==
    LET crlfIdx == IndexOf(raw, <<"\r", "\n", "\r", "\n">>)
        lfIdx   == IndexOf(raw, <<"\n", "\n">>)
    IN  IF crlfIdx >= 0 THEN [end |-> crlfIdx, len |-> 4]
        ELSE IF lfIdx >= 0 THEN [end |-> lfIdx, len |-> 2]
        ELSE [end |-> -1, len |-> 0]

\* The boundary search of parseHttpResponse: where the header block ends
\* (-1: nowhere) and how long the boundary is.
FindBoundary(raw) ==
    LET crlfIdx == IndexOf(raw, <<"\r", "\n", "\r", "\n">>)
        lfIdx   == IndexOf(raw, <<"\n", "\n">>)
    IN  IF crlfIdx >= 0 /\ (lfIdx < 0 \/ crlfIdx <= lfIdx) THEN [end |-> crlfIdx, len |-> 4]
        ELSE IF lfIdx >= 0 THEN [end |-> lfIdx, len |-> 2]
        ELSE [end |-> -1, len |-> 0]

\* Mutant of SkipInterim: the interim responses are not skipped.
SkipInterimNever(raw, headersStr, bodyStart, boundary) ==
    [headersStr |-> headersStr, bodyStart |-> bodyStart, boundary |-> boundary]

\* The `while (true)` loop of parseHttpResponse, one call per iteration.
\* `boundary` is the boundary found last: where it starts in raw, its length.
RECURSIVE SkipInterim(_, _, _, _)
SkipInterim(raw, headersStr, bodyStart, boundary) ==
    LET afterBody == SliceFrom(raw, bodyStart)
        n == FindBoundary(afterBody)
    IN  IF StartsWith(afterBody, <<"H", "T", "T", "P", "/">>) /\ n.end >= 0
        THEN SkipInterim(raw, Slice(afterBody, 0, n.end), bodyStart + n.end + n.len,
                         [at |-> bodyStart + n.end, len |-> n.len])
        ELSE [headersStr |-> headersStr, bodyStart |-> bodyStart, boundary |-> boundary]

\* line.match(/HTTP\/[\d.]+ (\d+)/): the group of the leftmost match, or null.
RECURSIVE StatusMatch(_)
StatusMatch(line) ==
    LET i == IndexOf(line, <<"H", "T", "T", "P", "/">>)
    IN  IF i < 0 THEN Null
        ELSE LET rest == SliceFrom(line, i + 5)
                 v    == Run(rest, Digits \cup {"."})
                 code == SliceFrom(rest, v + 1)
                 d    == Run(code, Digits)
             IN  IF v >= 1 /\ Len(rest) > v /\ rest[v + 1] = " " /\ d >= 1
                 THEN Str(Slice(code, 0, d))
                 ELSE StatusMatch(SliceFrom(line, i + 1))

\* const statusCode = statusMatch ? parseInt(statusMatch[1], 10) : 200
StatusCodeOf(headersStr, sep) ==
    LET lines == Split(headersStr, sep)
        statusMatch == IF lines[1] = <<>> THEN Null ELSE StatusMatch(lines[1])
    IN  IF statusMatch.isNull THEN 200 ELSE ParseInt(statusMatch.str)

\* The header loop over lines[1..]: a later line replaces an earlier one of
\* the same name.
RECURSIVE HeadersOf(_, _)
HeadersOf(lines, headers) ==
    IF lines = <<>> THEN headers
    ELSE LET ci == IndexOf(lines[1], <<":">>)
         IN  HeadersOf(Tail(lines),
                       IF ci > 0
                       THEN MapSet(headers, Trim(Slice(lines[1], 0, ci)),
                                   Trim(SliceFrom(lines[1], ci + 1)))
                       ELSE headers)

\* The own keys of the headers object in the order Object.entries lists
\* them, the order in which they were first assigned (for names that are not
\* integers).
RECURSIVE HeaderNamesOf(_, _)
HeaderNamesOf(lines, names) ==
    IF lines = <<>> THEN names
    ELSE LET ci   == IndexOf(lines[1], <<":">>)
             name == Trim(Slice(lines[1], 0, ci))
         IN  HeaderNamesOf(Tail(lines),
                           IF ci > 0 /\ \A i \in 1..Len(names) : names[i] # name
                           THEN Append(names, name)
                           ELSE names)

\* Mutant of parseHttpResponse: the body is taken from the start of the
\* boundary instead of from its end.
parseHttpResponseBodyAtBoundary(data) ==
    LET raw == data
        b   == FindBoundary(raw)
    IN  IF b.end < 0
        THEN [statusCode |-> 200, headers |-> <<>>, names |-> <<>>, body |-> data,
              headersStr |-> <<>>, bodyStart |-> 0, boundary |-> [at |-> 0, len |-> 0]]
        ELSE LET k   == SkipInterim(raw, Slice(raw, 0, b.end), b.end + b.len,
                                    [at |-> b.end, len |-> b.len])
                 sep == IF Contains(k.headersStr, <<"\r", "\n">>) THEN <<"\r", "\n">> ELSE <<"\n">>
             IN  [statusCode |-> StatusCodeOf(k.headersStr, sep),
                  headers    |-> HeadersOf(Tail(Split(k.headersStr, sep)), <<>>),
                  names      |-> HeaderNamesOf(Tail(Split(k.headersStr, sep)), <<>>),
                  body       |-> SliceFrom(data, k.boundary.at),
                  headersStr |-> k.headersStr,
                  bodyStart  |-> k.boundary.at,
                  boundary   |-> k.boundary]

\* parseHttpResponse(data).  names lists the keys of headers in their order;
\* headersStr and bodyStart are the locals of the function at its return,
\* boundary the boundary it found last.
parseHttpResponse(data) ==
    LET raw == data
        b   == FindBoundary(raw)
    IN  IF b.end < 0
        THEN [statusCode |-> 200, headers |-> <<>>, names |-> <<>>, body |-> data,
              headersStr |-> <<>>, bodyStart |-> 0, boundary |-> [at |-> 0, len |-> 0]]
        ELSE LET k   == SkipInterim(raw, Slice(raw, 0, b.end), b.end + b.len,
                                    [at |-> b.end, len |-> b.len])
                 sep == IF Contains(k.headersStr, <<"\r", "\n">>) THEN <<"\r", "\n">> ELSE <<"\n">>
             IN  [statusCode |-> StatusCodeOf(k.headersStr, sep),
                  headers    |-> HeadersOf(Tail(Split(k.headersStr, sep)), <<>>),
                  names      |-> HeaderNamesOf(Tail(Split(k.headersStr, sep)), <<>>),
                  body       |-> SliceFrom(data, k.bodyStart),
                  headersStr |-> k.headersStr,
                  bodyStart  |-> k.bodyStart,
                  boundary   |-> k.boundary]

----------------------------------------------------------------------------
(* HTML / header rewriting *)

LowerLetters ==
    <<"a", "b", "c", "d", "e", "f", "g", "h", "i", "j", "k", "l", "m",
      "n", "o", "p", "q", "r", "s", "t", "u", "v", "w", "x", "y", "z">>

UpperLetters ==
    <<"A", "B", "C", "D", "E", "F", "G", "H", "I", "J", "K", "L", "M",
      "N", "O", "P", "Q", "R", "S", "T", "U", "V", "W", "X", "Y", "Z">>

\* [a-zA-Z0-9_-]
ClusterChars ==
    {LowerLetters[i] : i \in 1..26} \cup {UpperLetters[i] : i \in 1..26}
    \cup Digits \cup {"_", "-"}

QuoteChars == {"\"", "'"}

\* String.prototype.toLowerCase; how the i flag compares letters.
ToLower(s) ==
    LET ToLowerChar(c) ==
            IF \E i \in 1..26 : UpperLetters[i] = c
            THEN LowerLetters[CHOOSE i \in 1..26 : UpperLetters[i] = c]
            ELSE c
    IN
    [i \in 1..Len(s) |-> ToLowerChar(s[i])]

\* The length of the longest prefix of s with no character of `class`.
RECURSIVE RunNot(_, _)
RunNot(s, class) == IF s # <<>> /\ s[1] \notin class THEN 1 + RunNot(Tail(s), class) ELSE 0

\* yb-[a-zA-Z0-9_-]+-node\d+:\d+ at the start of s: the length of the match,
\* or 0.  The greedy class takes the whole run of its characters after
\* "yb-"; the match needs that run to end in -node<digits>, after at least
\* one more character, and to be followed by a colon and digits.
HostPortAt(s) ==
    LET r    == Run(SliceFrom(s, 3), ClusterChars)
        R    == Slice(s, 3, 3 + r)
        d    == TrailingDigits(R)
        port == Run(SliceFrom(s, 3 + r + 1), Digits)
    IN  IF /\ StartsWith(s, <<"y", "b", "-">>)
           /\ d >= 1
           /\ r - d - 5 >= 1
           /\ Slice(R, r - d - 5, r - d) = <<"-", "n", "o", "d", "e">>
           /\ Len(s) > 3 + r
           /\ s[3 + r + 1] = ":"
           /\ port >= 1
        THEN 3 + r + 1 + port
        ELSE 0

\* (https?:)?\/\/(yb-[a-zA-Z0-9_-]+-node\d+:\d+) at the start of s: the
\* length of the match (0: none) and its second group.
InternalAt(s) ==
    LET scheme == IF StartsWith(s, <<"h", "t", "t", "p", "s", ":">>) THEN 6
                  ELSE IF StartsWith(s, <<"h", "t", "t", "p", ":">>) THEN 5
                  ELSE 0
        m == IF StartsWith(SliceFrom(s, scheme), <<"/", "/">>)
             THEN HostPortAt(SliceFrom(s, scheme + 2))
             ELSE 0
    IN  IF m > 0
        THEN [len |-> scheme + 2 + m, hp |-> Slice(s, scheme + 2, scheme + 2 + m)]
        ELSE [len |-> 0, hp |-> <<>>]

\* html.replace(/(https?:)?\/\/(yb-...)/g, (_m, _s, hp) => `${proxyOrigin}/proxy/${hp}`)
RECURSIVE ReplaceInternal(_, _)
ReplaceInternal(html, proxyOrigin) ==
    LET hits == {i \in 0..(Len(html) - 1) : InternalAt(SliceFrom(html, i)).len > 0}
    IN  IF hits = {} THEN html
        ELSE LET i == CHOOSE x \in hits : \A y \in hits : x <= y
                 m == InternalAt(SliceFrom(html, i))
             IN  Slice(html, 0, i) \o proxyOrigin \o <<"/", "p", "r", "o", "x", "y", "/">> \o m.hp
                 \o ReplaceInternal(SliceFrom(html, i + m.len), proxyOrigin)

\* Mutant of AttrAt: the value need not start with a slash.
AttrAtAnyValue(s) ==
    LET low == ToLower(Slice(s, 0, 6))
        n   == IF StartsWith(low, <<"h", "r", "e", "f">>) THEN 4
               ELSE IF StartsWith(low, <<"s", "r", "c">>) THEN 3
               ELSE IF StartsWith(low, <<"a", "c", "t", "i", "o", "n">>) THEN 6
               ELSE 0
        w1  == Run(SliceFrom(s, n), Whitespace)
        w2  == Run(SliceFrom(s, n + w1 + 1), Whitespace)
        g1  == n + w1 + 1 + w2 + 1
        sl  == IF Len(s) >= g1 + 1 /\ s[g1 + 1] = "/" THEN 1 ELSE 0
        rest == SliceFrom(s, g1 + sl)
        v   == RunNot(rest, QuoteChars)
    IN  IF /\ n > 0
           /\ Len(s) >= g1
           /\ s[n + w1 + 1] = "="
           /\ s[g1] \in QuoteChars
           /\ ~StartsWith(ToLower(Slice(rest, 0, 6)), <<"p", "r", "o", "x", "y", "/">>)
        THEN [len |-> g1 + sl + v, g1 |-> g1, g2 |-> Slice(rest, 0, v)]
        ELSE [len |-> 0, g1 |-> 0, g2 |-> <<>>]

\* ((?:href|src|action)\s*=\s*["'])\/((?!proxy\/)[^"']*) with the i flag at
\* the start of s: the length of the match (0: none), the length of the
\* first group and the second group.
AttrAt(s) ==
    LET low == ToLower(Slice(s, 0, 6))
        n   == IF StartsWith(low, <<"h", "r", "e", "f">>) THEN 4
               ELSE IF StartsWith(low, <<"s", "r", "c">>) THEN 3
               ELSE IF StartsWith(low, <<"a", "c", "t", "i", "o", "n">>) THEN 6
               ELSE 0
        w1  == Run(SliceFrom(s, n), Whitespace)
        w2  == Run(SliceFrom(s, n + w1 + 1), Whitespace)
        g1  == n + w1 + 1 + w2 + 1
        rest == SliceFrom(s, g1 + 1)
        v   == RunNot(rest, QuoteChars)
    IN  IF /\ n > 0
           /\ Len(s) >= g1 + 1
           /\ s[n + w1 + 1] = "="
           /\ s[g1] \in QuoteChars
           /\ s[g1 + 1] = "/"
           /\ ~StartsWith(ToLower(Slice(rest, 0, 6)), <<"p", "r", "o", "x", "y", "/">>)
        THEN [len |-> g1 + 1 + v, g1 |-> g1, g2 |-> Slice(rest, 0, v)]
        ELSE [len |-> 0, g1 |-> 0, g2 |-> <<>>]

\* Mutant of ReplaceAttrs: the slash of the value is kept after the prefix.
RECURSIVE ReplaceAttrsKeepSlash(_, _)
ReplaceAttrsKeepSlash(html, currentTarget) ==
    LET hits == {i \in 0..(Len(html) - 1) : AttrAt(SliceFrom(html, i)).len > 0}
    IN  IF hits = {} THEN html
        ELSE LET i == CHOOSE x \in hits : \A y \in hits : x <= y
                 m == AttrAt(SliceFrom(html, i))
             IN  Slice(html, 0, i + m.g1) \o <<"/", "p", "r", "o", "x", "y", "/">>
                 \o currentTarget \o <<"/", "/">> \o m.g2
                 \o ReplaceAttrsKeepSlash(SliceFrom(html, i + m.len), currentTarget)

\* html.replace(/((?:href|src|action)\s*=\s*["'])\/((?!proxy\/)[^"']*)/gi,
\*              `$1/proxy/${currentTarget}/$2`)
RECURSIVE ReplaceAttrs(_, _)
ReplaceAttrs(html, currentTarget) ==
    LET hits == {i \in 0..(Len(html) - 1) : AttrAt(SliceFrom(html, i)).len > 0}
    IN  IF hits = {} THEN html
        ELSE LET i == CHOOSE x \in hits : \A y \in hits : x <= y
                 m == AttrAt(SliceFrom(html, i))
             IN  Slice(html, 0, i + m.g1) \o <<"/", "p", "r", "o", "x", "y", "/">>
                 \o currentTarget \o <<"/">> \o m.g2
                 \o ReplaceAttrs(SliceFrom(html, i + m.len), currentTarget)

\* Mutant of rewriteHtml: the two replacements run in the other order.
rewriteHtmlAttrsFirst(html, proxyOrigin, currentTarget) ==
    ReplaceInternal(ReplaceAttrs(html, currentTarget), proxyOrigin)

rewriteHtml(html, proxyOrigin, currentTarget) ==
    ReplaceAttrs(ReplaceInternal(html, proxyOrigin), currentTarget)

rewriteLocation(location, proxyOrigin, currentTarget) ==
    LET m == InternalAt(location)
        r == IF m.len > 0
             THEN proxyOrigin \o <<"/", "p", "r", "o", "x", "y", "/">> \o m.hp \o SliceFrom(location, m.len)
             ELSE location
    IN  IF r # location THEN r
        ELSE IF StartsWith(location, <<"/">>) THEN <<"/", "p", "r", "o", "x", "y", "/">> \o currentTarget \o location
        ELSE location

----------------------------------------------------------------------------
(* Inputs *)

HostDemo1 == <<"y", "b", "-", "d", "e", "m", "o", "-", "n", "o", "d", "e", "1">>

HostWeb == <<"w", "e", "b">>

\* Target hosts a request can name: one that follows the naming convention
\* and one that does not.
Hosts == {HostDemo1, HostWeb}

Ports == {<<"7", "0", "0", "0">>}

\* `http://localhost:${PORT}` with the default port.
ProxyOrigin == <<"h", "t", "t", "p", ":", "/", "/", "l", "o", "c", "a", "l", "h", "o", "s", "t", ":", "1", "5", "0", "8", "0">>

\* What the exec callback of a lookup can be called with.
LookupOutcomes ==
    LET \* What `docker ps ... | head -1` can print: nothing, a blank line, a name.
        LookupStdouts == {<<>>, <<"\n">>, HostDemo1 \o <<"\n">>}
    IN
    [err : BOOLEAN, stdout : LookupStdouts]

\* What the exec callback of the listing can be called with.
ListingOutcomes ==
    LET \* What the listing command can print: nothing, a container outside the
        \* naming convention, a node of a cluster and such a container.
        ListingStdouts ==
            { <<>>,
              <<"y", "b", "-", "f", "o", "o", "\t", "U", "p", "\t", "i", "m", "g", ":", "1", "\n">>,
              <<"y", "b", "-", "d", "e", "m", "o", "-", "n", "o", "d", "e", "1", "\t", "U", "p", "\t", "i", "m", "g", ":", "1", "\n", "y", "b", "-", "f", "o", "o", "\t", "U", "p", "\t", "i", "m", "g", ":", "1", "\n">> }
    IN
    [err : BOOLEAN, stdout : ListingStdouts]

\* error.message of a failed exec.
ExecMessage == <<"C", "o", "m", "m", "a", "n", "d", " ", "f", "a", "i", "l", "e", "d">>

\* What `curl -sS -i` can capture: an HTML page whose server sets a CORS
\* header of its own, and a response whose status code Node rejects.
RawHtml ==
    <<"H", "T", "T", "P", "/", "1", ".", "1", " ", "2", "0", "0", " ", "O", "K", "\n", "C", "o", "n", "t", "e", "n", "t", "-", "T", "y", "p", "e", ":", " ", "t", "e", "x", "t", "/", "h", "t", "m", "l", "\n", "A", "c", "c", "e", "s", "s", "-", "C", "o", "n", "t", "r", "o", "l", "-", "A", "l", "l", "o", "w", "-", "O", "r", "i", "g", "i", "n", ":", " ", "n", "u", "l", "l", "\n", "\n", "<", "a", " ", "h", "r", "e", "f", "=", "\"", "/", "x", "\"", ">">>

\* What the exec callback of a fetch can be called with: an error (with or
\* without stderr output, stdout holding what was captured until then), or
\* no error and the captured response.
FetchOutcomes ==
    LET RawBadStatus == <<"H", "T", "T", "P", "/", "1", ".", "1", " ", "9", "9", " ", "X", "\n", "\n">>
    IN
    LET CurlError == <<"c", "u", "r", "l", ":", " ", "(", "7", ")">>
    IN
    { [error |-> TRUE,  stderr |-> CurlError, message |-> ExecMessage, stdout |-> RawHtml],
      [error |-> TRUE,  stderr |-> <<>>,      message |-> ExecMessage, stdout |-> RawHtml],
      [error |-> FALSE, stderr |-> <<>>,      message |-> <<>>,        stdout |-> RawHtml],
      [error |-> FALSE, stderr |-> <<>>,      message |-> <<>>,        stdout |-> RawBadStatus] }

NoOutcome == [error |-> FALSE, stderr |-> <<>>, message |-> <<>>, stdout |-> <<>>]

----------------------------------------------------------------------------
(* The response object *)

FreshRes ==
    [ headersSent   |-> FALSE,
      writableEnded |-> FALSE,
      destroyed     |-> FALSE,
      statusCode    |-> 0,
      kind          |-> "none",      \* "none" | "error" (safeEnd page) | "upstream"
                                     \* | "options" | "favicon" | "landing"
      message       |-> <<>>,        \* the message of the error page sent
      head          |-> <<>>,        \* the headers writeHead has set, in order
      clusters      |-> 0,           \* the cluster cards of the landing page sent
      body          |-> <<>> ]       \* the upstream body sent

\* Mutant of isResponseDone: a destroyed response does not count as done.
isResponseDoneEndedOnly(rs) == rs.writableEnded

isResponseDone(rs) == rs.writableEnded \/ rs.destroyed

\* The body safeEnd sends for `message`.
ErrorPage(message) ==
    <<"<", "!", "D", "O", "C", "T", "Y", "P", "E", " ", "h", "t", "m", "l", ">",
      "<", "h", "t", "m", "l", ">", "<", "h", "e", "a", "d", ">", "<", "t", "i",
      "t", "l", "e", ">", "P", "r", "o", "x", "y", " ", "E", "r", "r", "o", "r",
      "<", "/", "t", "i", "t", "l", "e", ">", "<", "/", "h", "e", "a", "d", ">",
      "<", "b", "o", "d", "y", ">", "<", "h", "2", ">">>
    \o escapeHtml(message) \o
    <<"<", "/", "h", "2", ">", "<", "p", ">", "<", "a", " ", "h", "r", "e", "f",
      "=", "\"", "j", "a", "v", "a", "s", "c", "r", "i", "p", "t", ":", "h", "i",
      "s", "t", "o", "r", "y", ".", "b", "a", "c", "k", "(", ")", "\"", ">", "G",
      "o", " ", "b", "a", "c", "k", "<", "/", "a", ">", " ", "U+00B7", " ", "<",
      "a", " ", "h", "r", "e", "f", "=", "\"", "/", "\"", ">", "L", "a", "n", "d",
      "i", "n", "g", " ", "p", "a", "g", "e", "<", "/", "a", ">", "<", "/", "p",
      ">", "<", "/", "b", "o", "d", "y", ">", "<", "/", "h", "t", "m", "l", ">">>

HtmlContentType == << [name |-> <<"C", "o", "n", "t", "e", "n", "t", "-", "T", "y", "p", "e">>, value |-> <<"t", "e", "x", "t", "/", "h", "t", "m", "l", ";", " ", "c", "h", "a", "r", "s", "e", "t", "=", "u", "t", "f", "-", "8">>] >>

\* safeEnd(res, statusCode, message): writeHead unless the headers are out,
\* then end() with the error page.  end() on an ended response changes nothing.
safeEnd(rs, statusCode, message) ==
    IF rs.writableEnded THEN rs
    ELSE [rs EXCEPT !.headersSent   = TRUE,
                    !.statusCode    = IF rs.headersSent THEN @ ELSE statusCode,
                    !.head          = IF rs.headersSent THEN @ ELSE @ \o HtmlContentType,
                    !.writableEnded = TRUE,
                    !.kind          = "error",
                    !.message       = message]

\* res.writeHead(statusCode, outHeaders); res.end(body) of the fetch callback.
sendUpstream(rs, statusCode, head, body) ==
    [rs EXCEPT !.headersSent   = TRUE,
               !.statusCode    = statusCode,
               !.head          = @ \o head,
               !.writableEnded = TRUE,
               !.kind          = "upstream",
               !.body          = body]

\* res.writeHead(statusCode, ...); res.end(...) of a page that is no error
\* page and no upstream response: the 204, the favicon, the landing page.
sendPage(rs, statusCode, head, kind) ==
    [rs EXCEPT !.headersSent   = TRUE,
               !.statusCode    = statusCode,
               !.head          = @ \o head,
               !.writableEnded = TRUE,
               !.kind          = kind]

\* res.writeHead throws a RangeError for a status code outside 100..999.
ValidStatus(c) == c >= 100 /\ c <= 999

\* One entry of wlog: a res.end() call, the path that made it, whether the
\* response was already done when it was made, and whether the path evaluated
\* isResponseDone in that synchronous run before making it.
EndCall(rs, via, guarded) ==
    [via |-> via, late |-> rs.writableEnded \/ rs.destroyed, guarded |-> guarded]

----------------------------------------------------------------------------
(* Container lookup with caching and deduplication *)

\* Mutant of CacheFresh: an entry still counts at its expiry time.
CacheFreshAtExpiry(cache, cacheKey, t) ==
    cacheKey \in DOMAIN cache /\ t <= cache[cacheKey].expiry

\* containerCache.get(cacheKey) exists and Date.now() < entry.expiry
CacheFresh(cache, cacheKey, t) ==
    cacheKey \in DOMAIN cache /\ t < cache[cacheKey].expiry

\* Mutant of LookupKind: the in-flight table is not consulted.
LookupKindNoJoin(cache, inflight, cacheKey, t) ==
    IF cacheKey \in DOMAIN cache /\ t < cache[cacheKey].expiry THEN "hit" ELSE "new"

\* Mutant of LookupKind: the cache is not consulted.
LookupKindNoCache(cache, inflight, cacheKey, t) ==
    IF cacheKey \in DOMAIN inflight THEN "join" ELSE "new"

\* Which way lookupContainer answers: from the cache ("hit"), with the
\* in-flight promise ("join"), or by starting a `docker ps` ("new").
LookupKind(cache, inflight, cacheKey, t) ==
    IF CacheFresh(cache, cacheKey, t) THEN "hit"
    ELSE IF cacheKey \in DOMAIN inflight THEN "join"
    ELSE "new"

\* const result = (stdout || "").trim() || null
LookupResult(stdout) ==
    IF Trim(stdout) = <<>> THEN Null ELSE Str(Trim(stdout))

\* Mutant of CacheStore: a not-found result is not stored.
CacheStoreFoundOnly(cache, cacheKey, result, t) ==
    IF result.isNull THEN cache
    ELSE [x \in DOMAIN cache \cup {cacheKey} |->
            IF x = cacheKey THEN [value |-> result, expiry |-> t + CACHE_TTL_MS]
            ELSE cache[x]]

\* containerCache.set(cacheKey, { value: result, expiry: Date.now() + CACHE_TTL_MS })
CacheStore(cache, cacheKey, result, t) ==
    MapSet(cache, cacheKey, [value |-> result, expiry |-> t + CACHE_TTL_MS])

RunningQueries(cacheKey) ==
    {q \in 1..Len(queries) : queries[q].key = cacheKey /\ queries[q].running}

----------------------------------------------------------------------------
(* The request pipeline of handleProxy *)

PREFIX == <<"/", "p", "r", "o", "x", "y", "/">>

FaviconUrls == {<<"/", "f", "a", "v", "i", "c", "o", "n", ".", "i", "c", "o">>, <<"/", "f", "a", "v", "i", "c", "o", "n", ".", "s", "v", "g">>}

\* s.lastIndexOf(c): 0-based, -1 when c is absent.
LastIndexOf(s, c) ==
    LET hits == {i \in 0..(Len(s) - 1) : s[i + 1] = c}
    IN  IF hits = {} THEN -1 ELSE CHOOSE i \in hits : \A j \in hits : j <= i

\* /^\d+$/.test(s)
IsDigits(s) == Len(s) >= 1 /\ \A i \in 1..Len(s) : s[i] \in Digits

NoTarget(route) == [route |-> route, host |-> <<>>, port |-> <<>>, path |-> <<>>]

\* Mutant of ParsePath: the port is not tested.
ParsePathAnyPort(rawUrl) ==
    LET url == IF rawUrl = <<>> THEN <<"/">> ELSE rawUrl
    IN  IF url \in FaviconUrls THEN NoTarget("favicon")
        ELSE IF ~StartsWith(url, PREFIX) THEN NoTarget("landing")
        ELSE LET remainder    == SliceFrom(url, Len(PREFIX))
                 firstSlash   == IndexOf(remainder, <<"/">>)
                 hostPort     == IF firstSlash >= 0 THEN Slice(remainder, 0, firstSlash)
                                 ELSE remainder
                 pathAndQuery == IF firstSlash >= 0 THEN SliceFrom(remainder, firstSlash)
                                 ELSE <<"/">>
                 lastColon    == LastIndexOf(hostPort, ":")
             IN  IF lastColon < 1 THEN NoTarget("landing")
                 ELSE [route |-> "proxy", host |-> Slice(hostPort, 0, lastColon),
                       port |-> SliceFrom(hostPort, lastColon + 1), path |-> pathAndQuery]

\* How handleProxy routes req.url: the favicon, the landing page, or the
\* proxy pipeline for /proxy/<host>:<port>[/<path>].
ParsePath(rawUrl) ==
    LET url == IF rawUrl = <<>> THEN <<"/">> ELSE rawUrl
    IN  IF url \in FaviconUrls THEN NoTarget("favicon")
        ELSE IF ~StartsWith(url, PREFIX) THEN NoTarget("landing")
        ELSE LET remainder    == SliceFrom(url, Len(PREFIX))
                 firstSlash   == IndexOf(remainder, <<"/">>)
                 hostPort     == IF firstSlash >= 0 THEN Slice(remainder, 0, firstSlash)
                                 ELSE remainder
                 pathAndQuery == IF firstSlash >= 0 THEN SliceFrom(remainder, firstSlash)
                                 ELSE <<"/">>
                 lastColon    == LastIndexOf(hostPort, ":")
                 targetHost   == Slice(hostPort, 0, lastColon)
                 targetPort   == SliceFrom(hostPort, lastColon + 1)
             IN  IF lastColon < 1 \/ lastColon = Len(hostPort) - 1 THEN NoTarget("landing")
                 ELSE IF ~IsDigits(targetPort) THEN NoTarget("landing")
                 ELSE [route |-> "proxy", host |-> targetHost, port |-> targetPort,
                       path |-> pathAndQuery]

\* The request handler of the server answers OPTIONS itself and hands every
\* other request to handleProxy.
Route(method, url) == IF method = "OPTIONS" THEN NoTarget("options") ELSE ParsePath(url)

FreeReq ==
    [ st       |-> "free",     \* "free" | "landing" | "lookup" | "fetch" | "closed" | "gone"
      route    |-> "none",     \* "none" | "options" | "favicon" | "landing" | "proxy"
      url      |-> <<>>,       \* req.url, read by the step that routes the request
      host     |-> <<>>,
      port     |-> <<>>,
      arrived  |-> 0,          \* when handleProxy routed the request
      timer    |-> "none",     \* "none" | "armed" | "fired" | "cleared"
      src      |-> "none",     \* how findContainer answered: LookupKind, "reject"
      qid      |-> 0,          \* the query whose result the request uses
      hitExpiry |-> 0,         \* expiry of the cache entry it was answered from
      resolved |-> FALSE,      \* the .then callback of findContainer has run
      got      |-> Null,       \* the container it was given
      gotDone  |-> FALSE,      \* isResponseDone(res) when it was given
      fetches  |-> 0,          \* `docker exec ... curl` commands issued
      fetchOut |-> NoOutcome ] \* what its fetch callback went on to handle

Target(rq) == rq.host \o <<":">> \o rq.port

\* Mutant of NoContainersMessage: the cluster is left out.
NoContainersMessageBare(targetHost) ==
    <<"N", "o", " ", "r", "u", "n", "n", "i", "n", "g", " ", "c", "o", "n",
      "t", "a", "i", "n", "e", "r", "s", " ", "f", "o", "u", "n", "d">>

NoContainersMessage(targetHost) ==
    LET cluster == extractClusterName(targetHost)
    IN  <<"N", "o", " ", "r", "u", "n", "n", "i", "n", "g", " ", "c", "o", "n",
          "t", "a", "i", "n", "e", "r", "s", " ", "f", "o", "u", "n", "d">>
        \o (IF Truthy(cluster)
            THEN <<" ", "f", "o", "r", " ", "c", "l", "u", "s", "t", "e", "r", " ", "\"">>
                 \o cluster.str \o <<"\"">>
            ELSE <<>>)

LookupErrorMessage ==
    <<"E", "r", "r", "o", "r", " ", "f", "i", "n", "d", "i", "n", "g", " ", "r",
      "u", "n", "n", "i", "n", "g", " ", "c", "o", "n", "t", "a", "i", "n", "e", "r">>

TimeoutMessage(rq) ==
    <<"T", "i", "m", "e", "o", "u", "t", " ", "f", "e", "t", "c", "h", "i", "n",
      "g", " ">> \o Target(rq)

FetchErrorMessage(rq, msg) ==
    <<"C", "o", "u", "l", "d", " ", "n", "o", "t", " ", "r", "e", "a", "c", "h",
      " ">> \o Target(rq) \o <<":", " ">> \o msg

ProcessingErrorMessage ==
    <<"E", "r", "r", "o", "r", " ", "p", "r", "o", "c", "e", "s", "s", "i", "n",
      "g", " ", "p", "r", "o", "x", "i", "e", "d", " ", "r", "e", "s", "p", "o",
      "n", "s", "e">>

\* Mutant of ClearTimer: the timer is left armed.
ClearTimerNever(rq) == rq

\* clearTimeout(timer): a timer that has fired stays fired.
ClearTimer(rq) == IF rq.timer = "armed" THEN [rq EXCEPT !.timer = "cleared"] ELSE rq

\* The .catch callback of the lookup chain.  `guarded` tells whether the run
\* that reached it went through the isResponseDone test of the .then callback.
CatchCallback(rq, rs, wl, guarded) ==
    [ rq |-> [ClearTimer(rq) EXCEPT !.st = "closed"],
      rs |-> safeEnd(rs, 502, LookupErrorMessage),
      wl |-> Append(wl, EndCall(rs, "reject", guarded)) ]

\* Mutant of ThenCallback: a request that joined a running lookup issues no
\* fetch command of its own.
ThenCallbackCoalesced(rq, rs, wl, container, execThrows) ==
    LET r1 == [rq EXCEPT !.resolved = TRUE, !.got = container,
                         !.gotDone = isResponseDone(rs)]
    IN  IF isResponseDone(rs)
        THEN [ rq |-> [ClearTimer(r1) EXCEPT !.st = "closed"], rs |-> rs, wl |-> wl ]
        ELSE IF ~Truthy(container)
        THEN [ rq |-> [ClearTimer(r1) EXCEPT !.st = "closed"],
               rs |-> safeEnd(rs, 502, NoContainersMessage(rq.host)),
               wl |-> Append(wl, EndCall(rs, "missing", TRUE)) ]
        ELSE IF execThrows
        THEN CatchCallback(r1, rs, wl, TRUE)
        ELSE [ rq |-> [r1 EXCEPT !.st = "fetch",
                                 !.fetches = IF rq.src = "join" THEN @ ELSE @ + 1],
               rs |-> rs, wl |-> wl ]

\* The .then callback of findContainer(targetHost), given `container`;
\* `execThrows` tells whether child_process.exec throws synchronously.
ThenCallback(rq, rs, wl, container, execThrows) ==
    LET r1 == [rq EXCEPT !.resolved = TRUE, !.got = container,
                         !.gotDone = isResponseDone(rs)]
    IN  IF isResponseDone(rs)
        THEN [ rq |-> [ClearTimer(r1) EXCEPT !.st = "closed"], rs |-> rs, wl |-> wl ]
        ELSE IF ~Truthy(container)
        THEN [ rq |-> [ClearTimer(r1) EXCEPT !.st = "closed"],
               rs |-> safeEnd(rs, 502, NoContainersMessage(rq.host)),
               wl |-> Append(wl, EndCall(rs, "missing", TRUE)) ]
        ELSE IF execThrows
        THEN CatchCallback(r1, rs, wl, TRUE)
        ELSE [ rq |-> [r1 EXCEPT !.st = "fetch", !.fetches = @ + 1],
               rs |-> rs, wl |-> wl ]

\* Mutant of FetchErrorDetail: stderr is not looked at.
FetchErrorDetailMessageOnly(out) == out.message

\* const msg = (stderr && stderr.toString()) || error.message
FetchErrorDetail(out) == IF out.stderr # <<>> THEN out.stderr ELSE out.message

SKIP_HEADERS ==
    { <<"t", "r", "a", "n", "s", "f", "e", "r", "-", "e", "n", "c", "o", "d", "i", "n", "g">>, <<"c", "o", "n", "n", "e", "c", "t", "i", "o", "n">>, <<"k", "e", "e", "p", "-", "a", "l", "i", "v", "e">>, <<"c", "o", "n", "t", "e", "n", "t", "-", "l", "e", "n", "g", "t", "h">>,
      <<"c", "o", "n", "t", "e", "n", "t", "-", "s", "e", "c", "u", "r", "i", "t", "y", "-", "p", "o", "l", "i", "c", "y">>, <<"c", "o", "n", "t", "e", "n", "t", "-", "s", "e", "c", "u", "r", "i", "t", "y", "-", "p", "o", "l", "i", "c", "y", "-", "r", "e", "p", "o", "r", "t", "-", "o", "n", "l", "y">>,
      <<"x", "-", "f", "r", "a", "m", "e", "-", "o", "p", "t", "i", "o", "n", "s">>, <<"s", "t", "r", "i", "c", "t", "-", "t", "r", "a", "n", "s", "p", "o", "r", "t", "-", "s", "e", "c", "u", "r", "i", "t", "y">> }

\* A JavaScript object with string keys is the sequence of its [name, value]
\* entries in insertion order.  obj[name] = value:
ObjSet(obj, name, value) ==
    IF \E i \in 1..Len(obj) : obj[i].name = name
    THEN [i \in 1..Len(obj) |->
            IF obj[i].name = name THEN [name |-> name, value |-> value] ELSE obj[i]]
    ELSE Append(obj, [name |-> name, value |-> value])

\* The loop that copies the upstream headers, SKIP_HEADERS left out.
RECURSIVE CopyHeaders(_, _)
CopyHeaders(entries, outHeaders) ==
    IF entries = <<>> THEN outHeaders
    ELSE CopyHeaders(Tail(entries),
                     IF ToLower(entries[1].name) \in SKIP_HEADERS THEN outHeaders
                     ELSE ObjSet(outHeaders, entries[1].name, entries[1].value))

\* headers["Content-Type"] || headers["content-type"] || "application/octet-stream"
ContentTypeOf(headers) ==
    IF <<"C", "o", "n", "t", "e", "n", "t", "-", "T", "y", "p", "e">> \in DOMAIN headers /\ headers[<<"C", "o", "n", "t", "e", "n", "t", "-", "T", "y", "p", "e">>] # <<>>
    THEN headers[<<"C", "o", "n", "t", "e", "n", "t", "-", "T", "y", "p", "e">>]
    ELSE IF <<"c", "o", "n", "t", "e", "n", "t", "-", "t", "y", "p", "e">> \in DOMAIN headers /\ headers[<<"c", "o", "n", "t", "e", "n", "t", "-", "t", "y", "p", "e">>] # <<>>
    THEN headers[<<"c", "o", "n", "t", "e", "n", "t", "-", "t", "y", "p", "e">>]
    ELSE <<"a", "p", "p", "l", "i", "c", "a", "t", "i", "o", "n", "/", "o", "c", "t", "e", "t", "-", "s", "t", "r", "e", "a", "m">>

\* ct.includes("text/html")
IsHtml(parsed) == Contains(ContentTypeOf(parsed.headers), <<"t", "e", "x", "t", "/", "h", "t", "m", "l">>)

\* The object the fetch callback passes to res.writeHead.
OutHeaders(parsed, proxyOrigin, target) ==
    LET \* headers["Location"] || headers["location"]; <<>> stands for no value.
        LocationOf(headers) ==
            IF <<"L", "o", "c", "a", "t", "i", "o", "n">> \in DOMAIN headers /\ headers[<<"L", "o", "c", "a", "t", "i", "o", "n">>] # <<>>
            THEN headers[<<"L", "o", "c", "a", "t", "i", "o", "n">>]
            ELSE IF <<"l", "o", "c", "a", "t", "i", "o", "n">> \in DOMAIN headers THEN headers[<<"l", "o", "c", "a", "t", "i", "o", "n">>]
            ELSE <<>>
    IN
    LET \* Object.entries(headers) of a parsed response.
        Entries(p) ==
            [i \in 1..Len(p.names) |->
                [name |-> p.names[i], value |-> p.headers[p.names[i]]]]
    IN
    LET \* if (cond) obj[name] = value
        SetIf(cond, obj, name, value) == IF cond THEN ObjSet(obj, name, value) ELSE obj
        Redirect(loc) == parsed.statusCode >= 300 /\ parsed.statusCode < 400 /\ loc # <<>>
        Moved(obj, loc) ==
            SetIf(Redirect(loc), obj, <<"L", "o", "c", "a", "t", "i", "o", "n">>, rewriteLocation(loc, proxyOrigin, target))
        Typed(obj, ct, html) ==
            SetIf(html,
                  SetIf(~html, obj, <<"C", "a", "c", "h", "e", "-", "C", "o", "n", "t", "r", "o", "l">>, <<"p", "u", "b", "l", "i", "c", ",", " ", "m", "a", "x", "-", "a", "g", "e", "=", "3", "6", "0", "0">>),
                  <<"C", "o", "n", "t", "e", "n", "t", "-", "T", "y", "p", "e">>, ct)
    IN  Typed(Moved(CopyHeaders(Entries(parsed), <<>>), LocationOf(parsed.headers)),
              ContentTypeOf(parsed.headers), IsHtml(parsed))

\* res.writeHead(statusCode, obj) on a response on which setHeader was used:
\* setHeader for every key of obj in order, the empty key skipped, up to the
\* first one that throws.  `set` lists the setHeader calls made.
RECURSIVE WriteHeaders(_, _)
WriteHeaders(obj, set) ==
    LET \* res.setHeader(name, value) throws on a name that is no token and on a
        \* value holding a control character.
        ValidHeader(h) ==
            LET \* The characters of an HTTP token, what Node accepts in a header name (the
                \* backquote, which no header of the inputs holds, left out).
                TokenChars ==
                    {LowerLetters[i] : i \in 1..26} \cup {UpperLetters[i] : i \in 1..26} \cup Digits
                    \cup {"!", "#", "$", "%", "&", "'", "*", "+", "-", ".", "^", "_", "|", "~"}
            IN
            /\ h.name # <<>> /\ \A i \in 1..Len(h.name) : h.name[i] \in TokenChars
            /\ \A i \in 1..Len(h.value) : h.value[i] \notin {"\r", "\n"}
    IN
    IF obj = <<>> THEN [thrown |-> FALSE, set |-> set]
    ELSE IF obj[1].name = <<>> THEN WriteHeaders(Tail(obj), set)
    ELSE IF ~ValidHeader(obj[1]) THEN [thrown |-> TRUE, set |-> set]
    ELSE WriteHeaders(Tail(obj), Append(set, obj[1]))

\* The three setHeader calls the server makes on every response.
CorsHeaders ==
    << [name |-> <<"A", "c", "c", "e", "s", "s", "-", "C", "o", "n", "t", "r", "o", "l", "-", "A", "l", "l", "o", "w", "-", "O", "r", "i", "g", "i", "n">>, value |-> <<"*">>],
       [name |-> <<"A", "c", "c", "e", "s", "s", "-", "C", "o", "n", "t", "r", "o", "l", "-", "A", "l", "l", "o", "w", "-", "M", "e", "t", "h", "o", "d", "s">>, value |-> <<"G", "E", "T", ",", " ", "P", "O", "S", "T", ",", " ", "O", "P", "T", "I", "O", "N", "S">>],
       [name |-> <<"A", "c", "c", "e", "s", "s", "-", "C", "o", "n", "t", "r", "o", "l", "-", "A", "l", "l", "o", "w", "-", "H", "e", "a", "d", "e", "r", "s">>, value |-> <<"*">>] >>

\* The headers of a response on which setHeader was called for `set` in
\* order: Node keeps one header per lower-cased name, the last one set.
RECURSIVE HeaderMap(_, _)
HeaderMap(set, map) ==
    IF set = <<>> THEN map
    ELSE HeaderMap(Tail(set), MapSet(map, ToLower(set[1].name), set[1]))

\* What the fetch callback does with a captured response, from
\* parseHttpResponse to res.end: `thrown` when writeHead throws (a status
\* code outside 100..999, a header Node rejects), `head` the headers set on
\* the response by then.
Forward(stdout, proxyOrigin, target) ==
    LET \* The body the fetch callback sends for a parsed response.
        UpstreamBody(p) ==
            IF IsHtml(p) THEN rewriteHtml(p.body, proxyOrigin, target) ELSE p.body
    IN
    LET Written(parsed, w) ==
            IF ~ValidStatus(parsed.statusCode)
            THEN [thrown |-> TRUE, statusCode |-> 0, head |-> <<>>, body |-> <<>>]
            ELSE IF w.thrown
            THEN [thrown |-> TRUE, statusCode |-> 0, head |-> w.set, body |-> <<>>]
            ELSE [thrown |-> FALSE, statusCode |-> parsed.statusCode, head |-> w.set,
                  body |-> UpstreamBody(parsed)]
        Answer(parsed) ==
            Written(parsed, WriteHeaders(OutHeaders(parsed, proxyOrigin, target), <<>>))
    IN  Answer(parseHttpResponse(stdout))

\* Forward for every response a fetch can capture and every target.
Forwarded ==
    [raw \in {out.stdout : out \in FetchOutcomes},
     target \in {h \o <<":">> \o p : h \in Hosts, p \in Ports} |->
        Forward(raw, ProxyOrigin, target)]

\* Mutant of FetchCallback: the isResponseDone tests are missing.
FetchCallbackUnguarded(rq, rs, wl, out) ==
    LET r1 == [(IF rq.timer = "armed" THEN [rq EXCEPT !.timer = "cleared"] ELSE rq)
                 EXCEPT !.st = "closed", !.fetchOut = out]
        fw == Forwarded[out.stdout, Target(rq)]
    IN  IF out.error
        THEN [ rq |-> r1,
               rs |-> safeEnd(rs, 502, FetchErrorMessage(rq, FetchErrorDetail(out))),
               wl |-> Append(wl, EndCall(rs, "fetchError", FALSE)) ]
        ELSE IF fw.thrown
        THEN [ rq |-> r1,
               rs |-> safeEnd([rs EXCEPT !.head = @ \o fw.head], 500, ProcessingErrorMessage),
               wl |-> Append(wl, EndCall(rs, "processing", FALSE)) ]
        ELSE [ rq |-> r1,
               rs |-> sendUpstream(rs, fw.statusCode, fw.head, fw.body),
               wl |-> Append(wl, EndCall(rs, "upstream", FALSE)) ]

\* The exec callback of the fetch, called with outcome `out`.
FetchCallback(rq, rs, wl, out) ==
    LET r0 == [ClearTimer(rq) EXCEPT !.st = "closed"]
        r1 == [r0 EXCEPT !.fetchOut = out]
        Captured(fw) ==
            IF fw.thrown
            THEN [ rq |-> r1,
                   rs |-> safeEnd([rs EXCEPT !.head = @ \o fw.head], 500, ProcessingErrorMessage),
                   wl |-> Append(wl, EndCall(rs, "processing", TRUE)) ]
            ELSE [ rq |-> r1,
                   rs |-> sendUpstream(rs, fw.statusCode, fw.head, fw.body),
                   wl |-> Append(wl, EndCall(rs, "upstream", TRUE)) ]
    IN  IF isResponseDone(rs)
        THEN [ rq |-> r0, rs |-> rs, wl |-> wl ]
        ELSE IF out.error
        THEN [ rq |-> r1,
               rs |-> safeEnd(rs, 502, FetchErrorMessage(rq, FetchErrorDetail(out))),
               wl |-> Append(wl, EndCall(rs, "fetchError", TRUE)) ]
        ELSE Captured(Forwarded[out.stdout, Target(rq)])

\* Mutant of TimerCallback: the test is inverted, so nothing is written.
TimerCallbackInverted(rq, rs, wl) ==
    IF rs.writableEnded \/ rs.destroyed
    THEN [ rq |-> [rq EXCEPT !.timer = "fired"],
           rs |-> safeEnd(rs, 504, TimeoutMessage(rq)),
           wl |-> Append(wl, EndCall(rs, "timeout", TRUE)) ]
    ELSE [ rq |-> [rq EXCEPT !.timer = "fired"], rs |-> rs, wl |-> wl ]

\* The setTimeout callback of handleProxy.
TimerCallback(rq, rs, wl) ==
    IF ~isResponseDone(rs)
    THEN [ rq |-> [rq EXCEPT !.timer = "fired"],
           rs |-> safeEnd(rs, 504, TimeoutMessage(rq)),
           wl |-> Append(wl, EndCall(rs, "timeout", TRUE)) ]
    ELSE [ rq |-> [rq EXCEPT !.timer = "fired"], rs |-> rs, wl |-> wl ]

----------------------------------------------------------------------------
(* The event loop *)

\* No function is applied on its own while the server runs.
NoCall == [fn |-> "none", arg |-> <<>>, open |-> <<>>, value |-> <<>>, hdrs |-> <<>>]

NoRet == [done |-> FALSE, val |-> <<>>]

Init ==
    /\ now = 0
    /\ containerCache = <<>>
    /\ inflightLookups = <<>>
    /\ queries = <<>>
    /\ req = [r \in Reqs |-> FreeReq]
    /\ res = [r \in Reqs |-> FreshRes]
    /\ wlog = [r \in Reqs |-> <<>>]
    /\ call = NoCall
    /\ ret = NoRet

\* A request whose pipeline is closed has no callback pending and no timer
\* armed: nothing in the program refers to its objects any more.  Every step
\* forgets the requests that were closed before it.
GoneReq == [FreeReq EXCEPT !.st = "gone"]

Sweep(f, blank) == [r \in Reqs |-> IF req[r].st = "closed" THEN blank ELSE f[r]]

\* Likewise the error a lookup's callback was called with is kept for one step.
SweepQueries(qs) ==
    [q \in 1..Len(qs) |->
        IF q <= Len(queries) /\ ~queries[q].running
        THEN [qs[q] EXCEPT !.err = FALSE]
        ELSE qs[q]]

\* req.url is read by the step that routes the request and by no later one.
Forget(f) == [r \in Reqs |-> IF req[r].st = "free" THEN f[r] ELSE [f[r] EXCEPT !.url = <<>>]]

Commit(newReq, newRes, newWlog, newQueries) ==
    /\ req' = Forget(Sweep(newReq, GoneReq))
    /\ res' = Sweep(newRes, FreshRes)
    /\ wlog' = Sweep(newWlog, <<>>)
    /\ queries' = SweepQueries(newQueries)
    /\ UNCHANGED <<call, ret>>

\* Requests whose pipeline is open.
OpenReqs == {r \in Reqs : req[r].st \in {"landing", "lookup", "fetch"}}

\* The last completed query for a key: the one that stored its cache entry.
LastDone(cacheKey) ==
    LET done == {q \in 1..Len(queries) : queries[q].key = cacheKey /\ ~queries[q].running}
    IN  IF done = {} THEN 0 ELSE CHOOSE q \in done : \A o \in done : o <= q

\* The names of the clusters among the listed lines, each once.
RECURSIVE ClustersOf(_, _)
ClustersOf(lines, names) ==
    IF lines = <<>> THEN names
    ELSE LET container == Split(lines[1], <<"\t">>)[1]
             cluster   == extractClusterName(container)
         IN  ClustersOf(Tail(lines),
                        IF Truthy(cluster) THEN names \cup {cluster.str} ELSE names)

\* The exec callback of listRunningClustersDetailed, called with `out`: the
\* clusters the promise resolves to, by name.
listRunningClustersDetailed(out) ==
    LET lines == SelectSeq(Split(Trim(out.stdout), <<"\n">>), LAMBDA l : l # <<>>)
    IN  ClustersOf(lines, {})

\* The .then callback of serveLandingPage, called with the clusters listed.
LandingCallback(rq, rs, wl, clusters) ==
    LET r1 == [rq EXCEPT !.st = "closed"]
    IN  IF isResponseDone(rs)
        THEN [ rq |-> r1, rs |-> rs, wl |-> wl ]
        ELSE [ rq |-> r1,
               rs |-> [sendPage(rs, 200, HtmlContentType, "landing")
                          EXCEPT !.clusters = Cardinality(clusters)],
               wl |-> Append(wl, EndCall(rs, "landing", TRUE)) ]

Methods == {"GET", "OPTIONS"}

\* The urls requests ask for: the two targets, the bare root, a target whose
\* port is not a number, the favicon.
Urls ==
    {PREFIX \o h \o <<":">> \o p \o <<"/">> : h \in Hosts, p \in Ports}
    \cup { <<"/">>, <<"/", "p", "r", "o", "x", "y", "/", "w", "e", "b", ":", "7", "a", "/">>, <<"/", "f", "a", "v", "i", "c", "o", "n", ".", "i", "c", "o">> }

\* handleProxy for a request routed to /proxy/<h>:<p>/: it arms the timer and
\* calls findContainer(h).then(...).catch(...).  A cache hit runs the .then
\* callback in the same step; a synchronous throw of exec inside
\* lookupContainer rejects the lookup and runs the .catch callback in the
\* same step.
Proxied(r, routed, h, p, execThrows) ==
    /\ LET cacheKey == CacheKey(h)
           kind == LookupKind(containerCache, inflightLookups, cacheKey, now)
           rq0  == [routed EXCEPT !.host = h, !.port = p, !.arrived = now,
                                  !.timer = "armed"]
       IN  CASE kind = "hit" ->
                  LET e   == containerCache[cacheKey]
                      rq1 == [rq0 EXCEPT !.src = "hit", !.qid = LastDone(cacheKey),
                                         !.hitExpiry = e.expiry]
                      o   == ThenCallback(rq1, res[r], wlog[r], e.value, execThrows)
                  IN  /\ Truthy(e.value) \/ ~execThrows
                      /\ Commit([req EXCEPT ![r] = o.rq], [res EXCEPT ![r] = o.rs],
                                [wlog EXCEPT ![r] = o.wl], queries)
                      /\ UNCHANGED <<containerCache, inflightLookups>>
             [] kind = "join" ->
                  /\ ~execThrows
                  /\ containerCache' = MapDelete(containerCache, cacheKey)
                  /\ Commit([req EXCEPT ![r] =
                               [rq0 EXCEPT !.st = "lookup", !.src = "join",
                                           !.qid = inflightLookups[cacheKey]]],
                            res, wlog, queries)
                  /\ UNCHANGED inflightLookups
             [] kind = "new" /\ execThrows ->
                  LET o == CatchCallback([rq0 EXCEPT !.src = "reject"],
                                         res[r], wlog[r], FALSE)
                  IN  /\ containerCache' = MapDelete(containerCache, cacheKey)
                      /\ Commit([req EXCEPT ![r] = o.rq], [res EXCEPT ![r] = o.rs],
                                [wlog EXCEPT ![r] = o.wl], queries)
                      /\ UNCHANGED inflightLookups
             [] kind = "new" /\ ~execThrows ->
                  /\ containerCache' = MapDelete(containerCache, cacheKey)
                  /\ inflightLookups' = MapSet(inflightLookups, cacheKey, Len(queries) + 1)
                  /\ Commit([req EXCEPT ![r] =
                               [rq0 EXCEPT !.st = "lookup", !.src = "new",
                                           !.qid = Len(queries) + 1]],
                            res, wlog,
                            Append(queries,
                               [key |-> cacheKey, start |-> now, running |-> TRUE,
                                err |-> FALSE, result |-> Null, doneAt |-> 0]))

\* Where the server routes each request that can arrive.
Routes == [method \in Methods, url \in Urls |-> Route(method, url)]

\* A request arrives.  OPTIONS is answered 204 and the favicon is served at
\* once; the landing page is written when the cluster listing completes (in
\* the same step when exec throws: the listing promise rejects and .catch
\* turns it into no clusters); every other request enters the proxy pipeline.
Request(r, method, url, execThrows) ==
    LET FaviconHead ==
            << [name |-> <<"C", "o", "n", "t", "e", "n", "t", "-", "T", "y", "p", "e">>, value |-> <<"i", "m", "a", "g", "e", "/", "s", "v", "g", "+", "x", "m", "l">>],
               [name |-> <<"C", "a", "c", "h", "e", "-", "C", "o", "n", "t", "r", "o", "l">>, value |-> <<"p", "u", "b", "l", "i", "c", ",", " ", "m", "a", "x", "-", "a", "g", "e", "=", "8", "6", "4", "0", "0">>] >>
    IN
    /\ req[r].st = "free"
    /\ \A s \in Reqs : s < r => req[s].st # "free"
    /\ now <= FineHorizon
    /\ Cardinality(OpenReqs) < MaxOpen
    /\ LET to     == Routes[method, url]
           routed == [FreeReq EXCEPT !.route = to.route,
                                     !.url = IF method = "OPTIONS" THEN <<>> ELSE url]
       IN  CASE to.route = "options" ->
                  /\ ~execThrows
                  /\ Commit([req EXCEPT ![r] = [routed EXCEPT !.st = "closed"]],
                            [res EXCEPT ![r] = sendPage(@, 204, <<>>, "options")],
                            [wlog EXCEPT ![r] = Append(@, EndCall(res[r], "options", FALSE))],
                            queries)
                  /\ UNCHANGED <<containerCache, inflightLookups>>
             [] to.route = "favicon" ->
                  /\ ~execThrows
                  /\ Commit([req EXCEPT ![r] = [routed EXCEPT !.st = "closed"]],
                            [res EXCEPT ![r] = sendPage(@, 200, FaviconHead, "favicon")],
                            [wlog EXCEPT ![r] = Append(@, EndCall(res[r], "favicon", FALSE))],
                            queries)
                  /\ UNCHANGED <<containerCache, inflightLookups>>
             [] to.route = "landing" /\ execThrows ->
                  LET o == LandingCallback(routed, res[r], wlog[r], {})
                  IN  /\ Commit([req EXCEPT ![r] = o.rq], [res EXCEPT ![r] = o.rs],
                                [wlog EXCEPT ![r] = o.wl], queries)
                      /\ UNCHANGED <<containerCache, inflightLookups>>
             [] to.route = "landing" /\ ~execThrows ->
                  /\ Commit([req EXCEPT ![r] = [routed EXCEPT !.st = "landing"]],
                            res, wlog, queries)
                  /\ UNCHANGED <<containerCache, inflightLookups>>
             [] to.route = "proxy" ->
                  Proxied(r, routed, to.host, to.port, execThrows)
    /\ UNCHANGED now

\* What the cluster listing can resolve to.
Listings == {listRunningClustersDetailed(out) : out \in ListingOutcomes}

\* The cluster listing of request r's landing page resolves to `clusters`.
LandingDone(r, clusters) ==
    /\ req[r].st = "landing"
    /\ LET o == LandingCallback(req[r], res[r], wlog[r], clusters)
       IN  Commit([req EXCEPT ![r] = o.rq], [res EXCEPT ![r] = o.rs],
                  [wlog EXCEPT ![r] = o.wl], queries)
    /\ UNCHANGED <<now, containerCache, inflightLookups>>

\* Mutant of LookupDone: the result is stored and the in-flight entry removed
\* only if some request waiting on the query still has an open response.
LookupDoneForWaiters(q, out, throwers) ==
    /\ q \in 1..Len(queries)
    /\ queries[q].running
    /\ LET cacheKey == queries[q].key
           result   == LookupResult(out.stdout)
           waiters  == {r \in Reqs : req[r].st = "lookup" /\ req[r].qid = q}
           wanted   == \E r \in waiters : ~isResponseDone(res[r])
           o(r)     == ThenCallback(req[r], res[r], wlog[r], result, r \in throwers)
       IN  /\ throwers \subseteq waiters
           /\ Truthy(result) \/ throwers = {}
           /\ containerCache' = IF wanted THEN CacheStore(containerCache, cacheKey, result, now)
                                 ELSE containerCache
           /\ inflightLookups' = IF wanted THEN MapDelete(inflightLookups, cacheKey)
                                  ELSE inflightLookups
           /\ Commit([r \in Reqs |-> IF r \in waiters THEN o(r).rq ELSE req[r]],
                     [r \in Reqs |-> IF r \in waiters THEN o(r).rs ELSE res[r]],
                     [r \in Reqs |-> IF r \in waiters THEN o(r).wl ELSE wlog[r]],
                     [queries EXCEPT ![q] =
                        [@ EXCEPT !.running = FALSE, !.err = out.err,
                                  !.result = result, !.doneAt = now]])
    /\ UNCHANGED now

\* The exec callback of query q, called with outcome `out`: it stores the
\* result, resolves the promise, and the microtasks that follow delete the
\* in-flight entry and run the .then callback of every request waiting on it
\* (`throwers`: the requests whose fetch exec throws synchronously).
LookupDone(q, out, throwers) ==
    /\ q \in 1..Len(queries)
    /\ queries[q].running
    /\ LET cacheKey == queries[q].key
           result   == LookupResult(out.stdout)
           waiters  == {r \in Reqs : req[r].st = "lookup" /\ req[r].qid = q}
           o(r)     == ThenCallback(req[r], res[r], wlog[r], result, r \in throwers)
       IN  /\ throwers \subseteq waiters
           /\ Truthy(result) \/ throwers = {}
           /\ containerCache' = CacheStore(containerCache, cacheKey, result, now)
           /\ inflightLookups' = MapDelete(inflightLookups, cacheKey)
           /\ Commit([r \in Reqs |-> IF r \in waiters THEN o(r).rq ELSE req[r]],
                     [r \in Reqs |-> IF r \in waiters THEN o(r).rs ELSE res[r]],
                     [r \in Reqs |-> IF r \in waiters THEN o(r).wl ELSE wlog[r]],
                     [queries EXCEPT ![q] =
                        [@ EXCEPT !.running = FALSE, !.err = out.err,
                                  !.result = result, !.doneAt = now]])
    /\ UNCHANGED now

\* The exec callback of request r's fetch.
FetchDone(r, out) ==
    /\ req[r].st = "fetch"
    /\ LET Done(o) == Commit([req EXCEPT ![r] = o.rq], [res EXCEPT ![r] = o.rs],
                              [wlog EXCEPT ![r] = o.wl], queries)
       IN  Done(FetchCallback(req[r], res[r], wlog[r], out))
    /\ UNCHANGED <<now, containerCache, inflightLookups>>

TimerDue(rq) == rq.timer = "armed" /\ now >= rq.arrived + TIMEOUT_MS

\* Request r's 60 s timer fires.
TimerFire(r) ==
    /\ TimerDue(req[r])
    /\ LET o == TimerCallback(req[r], res[r], wlog[r])
       IN  Commit([req EXCEPT ![r] = o.rq], [res EXCEPT ![r] = o.rs],
                  [wlog EXCEPT ![r] = o.wl], queries)
    /\ UNCHANGED <<now, containerCache, inflightLookups>>

\* The client of request r goes away while its response is open: the socket
\* closes and the response is marked destroyed.
ClientClose(r) ==
    /\ req[r].st \in {"landing", "lookup", "fetch"}
    /\ ~isResponseDone(res[r])
    /\ Commit(req, [res EXCEPT ![r].destroyed = TRUE], wlog, queries)
    /\ UNCHANGED <<now, containerCache, inflightLookups>>

\* Time passes, one fine step; a timer that is due fires first.
TickFine ==
    /\ now < FineHorizon
    /\ \A r \in Reqs : ~TimerDue(req[r])
    /\ \A r \in Reqs : req[r].timer = "armed" => now + TickMs <= req[r].arrived + TIMEOUT_MS
    /\ now' = now + TickMs
    /\ Commit(req, res, wlog, queries)
    /\ UNCHANGED <<containerCache, inflightLookups>>

\* Time passes up to the next armed timer's deadline.
TickToDeadline ==
    /\ \A r \in Reqs : ~TimerDue(req[r])
    /\ \E r \in Reqs :
          /\ req[r].timer = "armed"
          /\ \A s \in Reqs : req[s].timer = "armed" => req[r].arrived <= req[s].arrived
          /\ now' = req[r].arrived + TIMEOUT_MS
    /\ Commit(req, res, wlog, queries)
    /\ UNCHANGED <<containerCache, inflightLookups>>

Next ==
    \/ \E r \in Reqs, m \in Methods, u \in Urls, t \in BOOLEAN : Request(r, m, u, t)
    \/ \E r \in Reqs, clusters \in Listings : LandingDone(r, clusters)
    \/ \E q \in 1..MaxReq, out \in LookupOutcomes, T \in SUBSET Reqs : LookupDone(q, out, T)
    \/ \E r \in Reqs, out \in FetchOutcomes : FetchDone(r, out)
    \/ \E r \in Reqs : TimerFire(r)
    \/ \E r \in Reqs : ClientClose(r)
    \/ TickFine
    \/ TickToDeadline

Spec == Init /\ [][Next]_vars

\* The timers fire and time passes; lookups and fetches may never complete.
FairSpec ==
    /\ Spec
    /\ WF_vars(TickFine)
    /\ WF_vars(TickToDeadline)
    /\ \A r \in Reqs : WF_vars(TimerFire(r))

----------------------------------------------------------------------------
(* The parser and the rewriters applied to bounded inputs *)

RECURSIVE Flatten(_)
Flatten(chunks) == IF chunks = <<>> THEN <<>> ELSE chunks[1] \o Flatten(Tail(chunks))

\* Every concatenation of at most n chunks.
Texts(chunks, n) == {Flatten(f) : f \in UNION {[1..k -> chunks] : k \in 0..n}}

ParseInputs ==
    LET \* Pieces of what `curl -i` can capture: interim responses, final header
        \* blocks with their boundary, a status line cut short, separators, body text.
        ParseChunks ==
            { <<"H", "T", "T", "P", "/", "1", ".", "1", " ", "1", "0", "0", " ", "C", "o", "n", "t", "i", "n", "u", "e", "\r", "\n", "\r", "\n">>,
              <<"H", "T", "T", "P", "/", "1", ".", "1", " ", "1", "0", "3", " ", "E", "\n", "\n">>,
              <<"H", "T", "T", "P", "/", "1", ".", "1", " ", "4", "0", "4", " ", "N", "F", "\r", "\n", "A", ":", " ", "b", "\r", "\n", "\r", "\n">>,
              <<"H", "T", "T", "P", "/", "1", ".", "1", " ", "3", "0", "2", " ", "F", "\n", "A", ":", " ", "c", "\n", "A", ":", " ", " ", "d", " ", "\n", "\n">>,
              <<"H", "T", "T", "P", "/", "1", ".", "1", " ", "2", "0", "0", " ", "O", "K", "\r", "\n">>,
              <<"\r", "\n", "\r", "\n">>, <<"\n", "\n">>, <<"\r", "\n">>, <<"\n">>, <<"h", "i">>, <<"H", "T", "T", "P", "/", "x">> }
    IN
    Texts(ParseChunks, MaxChunks)

\* The target of the request whose response is rewritten.
CurrentTarget == <<"y", "b", "-", "d", "e", "m", "o", "-", "n", "o", "d", "e", "1", ":", "7", "0", "0", "0">>

HtmlInputs ==
    LET \* Pieces of an HTML body: attribute openers, a closing quote, path pieces, a
        \* scheme, an internal address and the parts of one.
        HtmlChunks ==
            { <<"h", "r", "e", "f", "=", "\"">>, <<"S", "R", "C", " ", "=", " ", "'">>, <<"\"">>, <<"/">>, <<"p", "r", "o", "x", "y", "/">>, <<"h", "t", "t", "p", "s", ":">>,
              <<"/", "/", "y", "b", "-", "d", "e", "m", "o", "-", "n", "o", "d", "e", "2", ":", "9", "0", "0", "0">>, <<"/", "/", "y", "b", "-">>, <<"-", "n", "o", "d", "e", "3", ":", "7">>, <<"x">> }
    IN
    Texts(HtmlChunks, MaxChunks)

AttrOpeners == { <<"h", "r", "e", "f", "=", "\"">>, <<"S", "R", "C", " ", "=", " ", "'">>, <<"a", "c", "t", "i", "o", "n", "=", "\"">> }

\* An element with one attribute of value `value`.
AttrHtml(open, value) == <<"<", "a", " ">> \o open \o value \o <<open[Len(open)]>> \o <<">">>

LocationInputs ==
    LET \* Pieces of a Location header value.
        LocationChunks ==
            { <<"/">>, <<"p", "r", "o", "x", "y", "/">>, <<"h", "t", "t", "p", ":">>, <<"h", "t", "t", "p", "s", ":">>, <<"/", "/", "y", "b", "-", "d", "e", "m", "o", "-", "n", "o", "d", "e", "2", ":", "9", "0", "0", "0">>, <<"/", "/", "e", "x", "a", "m", "p", "l", "e", ".", "c", "o", "m">>, <<"l", "o", "g", "i", "n">> }
    IN
    Texts(LocationChunks, MaxChunks)

\* Header lines an upstream can send: Location and Content-Type in several
\* letter cases, every header of SKIP_HEADERS, a repeated header, headers the
\* proxy sets itself, a header it knows nothing about.
UpstreamHeaders ==
    { [name |-> <<"L", "o", "c", "a", "t", "i", "o", "n">>,   value |-> <<"h", "t", "t", "p", ":", "/", "/", "y", "b", "-", "d", "e", "m", "o", "-", "n", "o", "d", "e", "1", ":", "7", "0", "0", "0", "/", "l", "o", "g", "i", "n">>],
      [name |-> <<"l", "o", "c", "a", "t", "i", "o", "n">>,   value |-> <<"/", "/", "y", "b", "-", "d", "e", "m", "o", "-", "n", "o", "d", "e", "2", ":", "9", "0", "0", "0", "/", "x">>],
      [name |-> <<"L", "O", "C", "A", "T", "I", "O", "N">>,   value |-> <<"h", "t", "t", "p", "s", ":", "/", "/", "y", "b", "-", "d", "e", "m", "o", "-", "n", "o", "d", "e", "2", ":", "9", "0", "0", "0", "/">>],
      [name |-> <<"L", "o", "c", "a", "t", "i", "o", "n">>,   value |-> <<"/", "l", "o", "g", "i", "n">>],
      [name |-> <<"C", "o", "n", "t", "e", "n", "t", "-", "T", "y", "p", "e">>, value |-> <<"t", "e", "x", "t", "/", "h", "t", "m", "l">>],
      [name |-> <<"c", "o", "n", "t", "e", "n", "t", "-", "t", "y", "p", "e">>, value |-> <<"t", "e", "x", "t", "/", "h", "t", "m", "l", ";", " ", "c", "h", "a", "r", "s", "e", "t", "=", "u", "t", "f", "-", "8">>],
      [name |-> <<"C", "o", "n", "t", "e", "n", "t", "-", "t", "y", "p", "e">>, value |-> <<"t", "e", "x", "t", "/", "h", "t", "m", "l">>],
      [name |-> <<"C", "o", "n", "t", "e", "n", "t", "-", "T", "y", "p", "e">>, value |-> <<"i", "m", "a", "g", "e", "/", "p", "n", "g">>],
      [name |-> <<"T", "r", "a", "n", "s", "f", "e", "r", "-", "E", "n", "c", "o", "d", "i", "n", "g">>, value |-> <<"c", "h", "u", "n", "k", "e", "d">>],
      [name |-> <<"C", "O", "N", "N", "E", "C", "T", "I", "O", "N">>, value |-> <<"c", "l", "o", "s", "e">>],
      [name |-> <<"K", "e", "e", "p", "-", "A", "l", "i", "v", "e">>, value |-> <<"t", "i", "m", "e", "o", "u", "t", "=", "5">>],
      [name |-> <<"c", "o", "n", "t", "e", "n", "t", "-", "l", "e", "n", "g", "t", "h">>, value |-> <<"1", "3">>],
      [name |-> <<"C", "o", "n", "t", "e", "n", "t", "-", "S", "e", "c", "u", "r", "i", "t", "y", "-", "P", "o", "l", "i", "c", "y">>, value |-> <<"x">>],
      [name |-> <<"c", "o", "n", "t", "e", "n", "t", "-", "s", "e", "c", "u", "r", "i", "t", "y", "-", "p", "o", "l", "i", "c", "y", "-", "r", "e", "p", "o", "r", "t", "-", "o", "n", "l", "y">>, value |-> <<"x">>],
      [name |-> <<"X", "-", "F", "r", "a", "m", "e", "-", "O", "p", "t", "i", "o", "n", "s">>, value |-> <<"D", "E", "N", "Y">>],
      [name |-> <<"S", "t", "r", "i", "c", "t", "-", "T", "r", "a", "n", "s", "p", "o", "r", "t", "-", "S", "e", "c", "u", "r", "i", "t", "y">>, value |-> <<"m", "a", "x", "-", "a", "g", "e", "=", "1">>],
      [name |-> <<"S", "e", "t", "-", "C", "o", "o", "k", "i", "e">>, value |-> <<"a", "=", "1">>],
      [name |-> <<"S", "e", "t", "-", "C", "o", "o", "k", "i", "e">>, value |-> <<"b", "=", "2">>],
      [name |-> <<"C", "a", "c", "h", "e", "-", "C", "o", "n", "t", "r", "o", "l">>, value |-> <<"n", "o", "-", "s", "t", "o", "r", "e">>],
      [name |-> <<"A", "c", "c", "e", "s", "s", "-", "C", "o", "n", "t", "r", "o", "l", "-", "A", "l", "l", "o", "w", "-", "O", "r", "i", "g", "i", "n">>, value |-> <<"n", "u", "l", "l">>],
      [name |-> <<"X", "-", "A">>, value |-> <<"1">>] }

ForwardBody == <<"<", "a", " ", "h", "r", "e", "f", "=", "\"", "/", "x", "\"", ">">>

FnCalls ==
    LET \* Pieces of an attribute value.
        ValueChunks == { <<"/">>, <<"x">>, <<"p", "r", "o", "x", "y", "/">>, <<"/", "/", "y", "b", "-", "d", "e", "m", "o", "-", "n", "o", "d", "e", "2", ":", "9", "0", "0", "0">>, <<"?", "a", "=", "b">>, <<".", "p", "n", "g">> }
    IN
    LET \* What curl -i captures of a response with these headers.
        RawResponse(status, hdrs, body) ==
            <<"H", "T", "T", "P", "/", "1", ".", "1", " ">> \o status \o <<" ", "X", "\r", "\n">>
            \o Flatten([i \in 1..Len(hdrs) |-> hdrs[i].name \o <<":", " ">> \o hdrs[i].value \o <<"\r", "\n">>])
            \o <<"\r", "\n">> \o body
    IN
    LET Statuses == {<<"2", "0", "0">>, <<"3", "0", "2">>}
    IN
    LET HeaderLists == UNION {[1..k -> UpstreamHeaders] : k \in 0..MaxHeaders}
    IN
    LET HostUrls ==
            LET \* Pieces of a target host, of the same kinds.
                HostChunks == { <<"y", "b", "-">>, <<"d", "e", "m", "o">>, <<"-", "n", "o", "d", "e", "1">>, <<"'">>, <<"\"">>, <<";", "i", "d", ";">>, <<"$", "(", "i", "d", ")">>, <<"\\">> }
            IN
            {<<"/", "p", "r", "o", "x", "y", "/">> \o t \o <<":", "7", "0", "0", "0", "/">> : t \in Texts(HostChunks, MaxPieces)}
    IN
    LET \* Request urls that name the target yb-demo-node1:7000, bare or with a
        \* path and query, and request urls that name any host.
        PathUrls ==
            LET \* Pieces of a request path and query: plain text and what a shell would
                \* act on (a quote of either kind, a separator, a substitution, a backslash).
                PathChunks == { <<"/">>, <<"a">>, <<"?", "q", "=">>, <<"'">>, <<"\"">>, <<";", "i", "d">>, <<"$", "(", "i", "d", ")">>, <<"\\">> }
            IN
            {<<"/", "p", "r", "o", "x", "y", "/", "y", "b", "-", "d", "e", "m", "o", "-", "n", "o", "d", "e", "1", ":", "7", "0", "0", "0">>}
            \cup {<<"/", "p", "r", "o", "x", "y", "/", "y", "b", "-", "d", "e", "m", "o", "-", "n", "o", "d", "e", "1", ":", "7", "0", "0", "0", "/">> \o t : t \in Texts(PathChunks, MaxPieces)}
    IN
    [fn : {"parse"}, arg : ParseInputs, open : {<<>>}, value : {<<>>}, hdrs : {<<>>}]
    \cup [fn : {"rewriteHtml"}, arg : HtmlInputs, open : {<<>>}, value : {<<>>}, hdrs : {<<>>}]
    \cup { [fn |-> "rewriteHtml", arg |-> AttrHtml(o, v), open |-> o, value |-> v,
            hdrs |-> <<>>] :
              o \in AttrOpeners, v \in Texts(ValueChunks, MaxChunks) }
    \cup [fn : {"rewriteLocation"}, arg : LocationInputs, open : {<<>>}, value : {<<>>},
          hdrs : {<<>>}]
    \cup { [fn |-> "forward", arg |-> RawResponse(s, h, ForwardBody), open |-> s,
            value |-> ForwardBody, hdrs |-> h] : s \in Statuses, h \in HeaderLists }
    \cup [fn : {"fetchCommand"}, arg : PathUrls, open : {<<>>}, value : {<<>>},
          hdrs : {<<>>}]
    \cup [fn : {"lookupCommand"}, arg : HostUrls, open : {<<>>}, value : {<<>>},
          hdrs : {<<>>}]

FnInit ==
    /\ now = 0
    /\ containerCache = <<>>
    /\ inflightLookups = <<>>
    /\ queries = <<>>
    /\ req = [r \in Reqs |-> FreeReq]
    /\ res = [r \in Reqs |-> FreshRes]
    /\ wlog = [r \in Reqs |-> <<>>]
    /\ call \in FnCalls
    /\ ret = NoRet

\* parseHttpResponse(stdout) is called.
CallParse ==
    /\ call.fn = "parse" /\ ~ret.done
    /\ ret' = [done |-> TRUE, val |-> parseHttpResponse(call.arg)]
    /\ UNCHANGED <<now, containerCache, inflightLookups, queries, req, res, wlog, call>>

\* rewriteHtml(body, proxyOrigin, target) is called.
CallRewriteHtml ==
    /\ call.fn = "rewriteHtml" /\ ~ret.done
    /\ ret' = [done |-> TRUE, val |-> rewriteHtml(call.arg, ProxyOrigin, CurrentTarget)]
    /\ UNCHANGED <<now, containerCache, inflightLookups, queries, req, res, wlog, call>>

\* rewriteLocation(loc, proxyOrigin, target) is called.
CallRewriteLocation ==
    /\ call.fn = "rewriteLocation" /\ ~ret.done
    /\ ret' = [done |-> TRUE, val |-> rewriteLocation(call.arg, ProxyOrigin, CurrentTarget)]
    /\ UNCHANGED <<now, containerCache, inflightLookups, queries, req, res, wlog, call>>

\* The fetch callback's handling of a captured response is applied.
CallForward ==
    /\ call.fn = "forward" /\ ~ret.done
    /\ ret' = [done |-> TRUE, val |-> Forward(call.arg, ProxyOrigin, CurrentTarget)]
    /\ UNCHANGED <<now, containerCache, inflightLookups, queries, req, res, wlog, call>>

\* handleProxy builds the fetch command for the request url, the resolver
\* having answered yb-demo-node1.
CallFetchCommand ==
    LET \* The fetch command handleProxy builds for request url `url` once the
        \* resolver answered `container`, when the url names a target.
        FetchCommandFor(url, container) ==
            LET to == ParsePath(url)
            IN  IF to.route = "proxy"
                THEN FetchCommand(container, <<"h", "t", "t", "p", ":", "/", "/">> \o to.host \o <<":">> \o to.port \o to.path)
                ELSE <<>>
    IN
    /\ call.fn = "fetchCommand" /\ ~ret.done
    /\ ret' = [done |-> TRUE, val |-> FetchCommandFor(call.arg, HostDemo1)]
    /\ UNCHANGED <<now, containerCache, inflightLookups, queries, req, res, wlog, call>>

\* findContainer builds the lookup command for the host of the request url.
CallLookupCommand ==
    LET \* The lookup command handleProxy has findContainer build for request url
        \* `url`, when the url names a target.
        LookupCommandFor(url) ==
            LET to == ParsePath(url)
            IN  IF to.route = "proxy" THEN LookupCommand(to.host) ELSE <<>>
    IN
    /\ call.fn = "lookupCommand" /\ ~ret.done
    /\ ret' = [done |-> TRUE, val |-> LookupCommandFor(call.arg)]
    /\ UNCHANGED <<now, containerCache, inflightLookups, queries, req, res, wlog, call>>

FnNext ==
    \/ CallParse
    \/ CallRewriteHtml
    \/ CallRewriteLocation
    \/ CallForward
    \/ CallFetchCommand
    \/ CallLookupCommand

FnSpec == FnInit /\ [][FnNext]_vars

----------------------------------------------------------------------------
(* Properties *)

Keys == {CacheKey(h) : h \in Hosts}

\* The proxied requests the program still refers to.
Live == {r \in Reqs : req[r].route = "proxy" /\ req[r].st \in {"lookup", "fetch", "closed"}}

QueryIds == 1..Len(queries)

\* When the cache entry stored by a completed query expires.
ExpiryOf(q) == queries[q].doneAt + CACHE_TTL_MS

\* C1: at every moment at most one runtime query is running per cache key
\* (cluster:<name> for hosts yb-<name>-node<N>, any-yb otherwise); a call that
\* joined a running query started none and is given that query's result, the
\* same as the call that started it.
C1_SingleFlight ==
    LET HostDemo2 == <<"y", "b", "-", "d", "e", "m", "o", "-", "n", "o", "d", "e", "2">>
    IN
    /\ \A k \in Keys : Cardinality(RunningQueries(k)) <= 1
    /\ \A r \in Live :
          req[r].src \in {"new", "join"} =>
             /\ req[r].qid \in QueryIds
             /\ queries[req[r].qid].key = CacheKey(req[r].host)
             /\ queries[req[r].qid].start <= req[r].arrived
             /\ req[r].resolved =>
                  /\ ~queries[req[r].qid].running
                  /\ req[r].got = queries[req[r].qid].result
    /\ CacheKey(HostDemo1) = <<"c", "l", "u", "s", "t", "e", "r", ":", "d", "e", "m", "o">>
    /\ CacheKey(HostDemo2) = CacheKey(HostDemo1)
    /\ CacheKey(HostWeb) = <<"a", "n", "y", "-", "y", "b">>

\* C1 witness: a request joined the query another request started, and both
\* were given the container it found.
C1_Witness ==
    \E r1, r2 \in Live :
        /\ r1 # r2
        /\ req[r1].src = "new" /\ req[r2].src = "join"
        /\ req[r1].qid = req[r2].qid
        /\ req[r1].resolved /\ req[r2].resolved
        /\ Truthy(req[r1].got) /\ req[r2].got = req[r1].got

\* C2: resolve never returns a cached value at or after the entry's expiry:
\* a request answered from the cache arrived strictly before the expiry of
\* the entry it read, and while a request waits for a lookup no entry (stale
\* or not) is left in the cache for its key.
C2_NoStaleValue ==
    \A r \in Live :
        /\ req[r].src = "hit" => req[r].arrived < req[r].hitExpiry
        /\ req[r].st = "lookup" => CacheKey(req[r].host) \notin DOMAIN containerCache

\* C2 witness: a request arrived exactly at the expiry of the entry the last
\* query for its key had stored, and resolved again instead of using it.
C2_Witness ==
    \E r \in Live :
        /\ req[r].src \in {"new", "join"}
        /\ LastDone(CacheKey(req[r].host)) # 0
        /\ \E q \in QueryIds :
              /\ queries[q].key = CacheKey(req[r].host)
              /\ ~queries[q].running
              /\ q < req[r].qid
              /\ req[r].arrived = ExpiryOf(q)

\* C3: for one cache key, no resolve call between the start of a runtime
\* query and the expiry of the entry it stores starts another query: a call
\* that starts a query finds every earlier query for its key completed and
\* its entry expired.  Calls after that expiry share one new query: a call
\* that overlaps a running query joins it, and a call answered from the cache
\* read an entry that had not expired.
C3_OneQueryPerWindow ==
    \A r \in Live :
        /\ req[r].src = "new" =>
              \A q \in QueryIds :
                  (q < req[r].qid /\ queries[q].key = CacheKey(req[r].host)) =>
                      ~queries[q].running /\ ExpiryOf(q) <= req[r].arrived
        /\ req[r].src = "join" =>
              \A q \in QueryIds :
                  (q # req[r].qid /\ queries[q].key = CacheKey(req[r].host)
                     /\ queries[q].start <= req[r].arrived) =>
                      ~queries[q].running /\ ExpiryOf(q) <= req[r].arrived
        /\ req[r].src = "hit" =>
              /\ req[r].qid \in QueryIds
              /\ queries[req[r].qid].key = CacheKey(req[r].host)
              /\ ~queries[req[r].qid].running
              /\ queries[req[r].qid].doneAt <= req[r].arrived
              /\ req[r].arrived < ExpiryOf(req[r].qid)
              /\ req[r].hitExpiry = ExpiryOf(req[r].qid)

\* C3 witness: after the entry of a first query expired, two overlapping
\* calls for the key shared one new query.
C3_Witness ==
    \E r1, r2 \in Live : \E q \in QueryIds :
        /\ r1 # r2
        /\ req[r1].src = "new" /\ req[r2].src = "join"
        /\ req[r1].qid = req[r2].qid
        /\ q < req[r1].qid
        /\ queries[q].key = CacheKey(req[r1].host)
        /\ ExpiryOf(q) <= req[r1].arrived
        /\ Len(queries) = 2

\* C4: for every request the final response is written at most once, and no
\* res.end() is made on a response that has ended or been destroyed, across
\* every interleaving of lookup completion, fetch completion, timer and
\* client disconnect.
C4_WriteOnce ==
    \A r \in Reqs :
        /\ Len(wlog[r]) <= 1
        /\ \A i \in 1..Len(wlog[r]) : ~wlog[r][i].late
        /\ Len(wlog[r]) = 1 <=> res[r].writableEnded

\* C4 witness: one request was answered 504 by its timer and its fetch
\* completed afterwards without a second write, while the client of another
\* request had gone away and its timer fired without any write.
C4_Witness ==
    \E r1, r2 \in Live :
        /\ req[r1].st = "closed"
        /\ req[r1].fetches = 1
        /\ req[r1].timer = "fired"
        /\ Len(wlog[r1]) = 1 /\ wlog[r1][1].via = "timeout"
        /\ res[r2].destroyed
        /\ req[r2].timer = "fired"
        /\ Len(wlog[r2]) = 0

Deadline(r) == req[r].arrived + TIMEOUT_MS

\* C5: the timer runs from the moment the request is routed: past the
\* deadline arrived + 60 s every response is finished, a timer that fired on
\* a connected client answered 504 with the timeout page, and nothing a
\* lookup or a fetch does afterwards writes to that response.
C5_Timeout ==
    \A r \in Live :
        /\ now > Deadline(r) => res[r].writableEnded \/ res[r].destroyed
        /\ req[r].timer = "fired" =>
              /\ now >= Deadline(r)
              /\ res[r].destroyed \/
                   /\ res[r].statusCode = 504
                   /\ res[r].kind = "error"
                   /\ res[r].message = TimeoutMessage(req[r])
                   /\ Len(wlog[r]) = 1 /\ wlog[r][1].via = "timeout"
        /\ res[r].statusCode = 504 => req[r].timer = "fired"

\* C5 witness: a request was answered 504 at its deadline and its container
\* lookup completed afterwards, leaving the 504 as the only write.
C5_Witness ==
    \E r \in Live :
        /\ res[r].statusCode = 504
        /\ req[r].st = "closed"
        /\ req[r].resolved /\ req[r].gotDone
        /\ req[r].fetches = 0
        /\ Len(wlog[r]) = 1

\* C6: every error path (missing container, lookup-chain rejection, fetch
\* failure, processing exception, timeout) tests that the response has not
\* ended or been destroyed before it writes its error page.
C6_ErrorPathsGuarded ==
    \A r \in Live : \A i \in 1..Len(wlog[r]) :
        wlog[r][i].via # "upstream" => wlog[r][i].guarded

Finished(r) ==
    req[r].st \in {"closed", "gone"} \/ res[r].writableEnded \/ res[r].destroyed

\* C7: every proxied request eventually has a finished response (or a client
\* that has gone away), even if its lookup or its fetch never completes,
\* provided its timer fires; and a pipeline is closed only on a response
\* that is finished.
C7_EventuallyFinished ==
    /\ [](\A r \in Reqs : req[r].st = "closed" =>
              res[r].writableEnded \/ res[r].destroyed)
    /\ \A r \in Reqs : (req[r].st \in {"lookup", "fetch"}) ~> Finished(r)

\* C7 witness: a request whose lookup has not completed was answered 504.
C7_Witness ==
    \E r \in Live :
        /\ req[r].st = "lookup"
        /\ res[r].writableEnded /\ res[r].statusCode = 504

\* C8: a resolution that finds no container stores a not-found entry with the
\* same TTL as a success: until the expiry of the last completed query for a
\* key the cache holds that query's result, found or not, expiring 10 s after
\* the query completed; a call answered from a not-found entry is given
\* absent, is answered 502 and issues nothing; and no query is started before
\* a not-found entry has expired.
C8_NotFoundCached ==
    /\ \A k \in Keys :
          LET q == LastDone(k)
          IN  (q # 0 /\ now < ExpiryOf(q)) =>
                 /\ k \in DOMAIN containerCache
                 /\ containerCache[k] =
                       [value |-> queries[q].result, expiry |-> ExpiryOf(q)]
    /\ \A r \in Live :
          /\ (req[r].src = "hit" /\ queries[req[r].qid].result = Null) =>
                /\ req[r].resolved /\ req[r].got = Null
                /\ req[r].fetches = 0
                /\ res[r].statusCode = 502
          /\ req[r].src = "new" =>
                \A q \in QueryIds :
                    (q < req[r].qid /\ queries[q].key = CacheKey(req[r].host)
                       /\ ~queries[q].running /\ queries[q].result = Null) =>
                        ExpiryOf(q) <= req[r].arrived

\* C8 witness: a query found nothing, and a later call for the key within
\* the TTL was answered absent from the cache.
C8_Witness ==
    \E r \in Live :
        /\ req[r].src = "hit"
        /\ req[r].resolved /\ req[r].got = Null
        /\ queries[req[r].qid].result = Null
        /\ queries[req[r].qid].doneAt < req[r].arrived

\* C9: a runtime query that ends with an executor error resolves to absent,
\* and absent is what is cached for its key.
C9_ErrorIsNotFound ==
    \A q \in QueryIds :
        (~queries[q].running /\ queries[q].err) =>
            /\ queries[q].result = Null
            /\ containerCache[queries[q].key].value = Null

\* C10: when resolution returns absent for a request whose response is not
\* finished, the proxy answers 502 with the error page naming the cluster
\* extracted from the target host (when the host follows the naming
\* convention), clears the timer and issues no fetch.
C10_MissingContainer ==
    \A r \in Live :
        (req[r].resolved /\ ~Truthy(req[r].got) /\ ~req[r].gotDone) =>
            /\ res[r].writableEnded
            /\ res[r].statusCode = 502
            /\ res[r].kind = "error"
            /\ StartsWith(res[r].message, NoContainersMessageBare(req[r].host))
            /\ LET cluster == extractClusterName(req[r].host)
               IN  IF Truthy(cluster)
                   THEN Contains(ErrorPage(res[r].message),
                                 escapeHtml(<<" ", "f", "o", "r", " ", "c", "l", "u",
                                              "s", "t", "e", "r", " ", "\"">>
                                            \o cluster.str \o <<"\"">>))
                   ELSE res[r].message = NoContainersMessageBare(req[r].host)
            /\ req[r].timer = "cleared"
            /\ req[r].fetches = 0
            /\ req[r].st = "closed"
            /\ Len(wlog[r]) = 1 /\ wlog[r][1].via = "missing"
    /\ extractClusterName(HostDemo1) = Str(<<"d", "e", "m", "o">>)
    /\ extractClusterName(HostWeb) = Null

\* C10 witness: a lookup for yb-demo-node1 found no container and the open
\* response was answered 502.
C10_Witness ==
    \E r \in Live :
        /\ req[r].host = HostDemo1
        /\ req[r].resolved /\ ~Truthy(req[r].got) /\ ~req[r].gotDone
        /\ req[r].src = "join"
        /\ res[r].statusCode = 502


CRLFCRLF == <<"\r", "\n", "\r", "\n">>

LFLF == <<"\n", "\n">>

HttpSlash == <<"H", "T", "T", "P", "/">>

\* s holds p at 0-based index i.
At(s, i, p) == i >= 0 /\ i + Len(p) <= Len(s) /\ SubSeq(s, i + 1, i + Len(p)) = p

BoundaryStarts(s) == {i \in 0..Len(s) : At(s, i, CRLFCRLF) \/ At(s, i, LFLF)}

\* s begins a header block: a status line and, further on, a boundary.
BeginsBlock(s) == StartsWith(s, HttpSlash) /\ BoundaryStarts(s) # {}

Parsed == call.fn = "parse" /\ ret.done

\* C14: parse picks as the header/body boundary whichever of the first
\* CRLFCRLF and the first LFLF starts earlier in the buffer: the boundary it
\* ends on is never before that one, and is that one (the header block being
\* the bytes before it and the body the bytes after it) unless the bytes
\* after it begin another header block; a buffer with neither sequence gives
\* status 200, no headers and the whole buffer as body.
C14_BoundaryChoice ==
    Parsed =>
        LET raw == call.arg
            p   == ret.val
            B   == BoundaryStarts(raw)
        IN  IF B = {}
            THEN p.statusCode = 200 /\ p.headers = <<>> /\ p.body = raw
            ELSE LET i   == CHOOSE x \in B : \A y \in B : x <= y
                     len == IF At(raw, i, CRLFCRLF) THEN 4 ELSE 2
                 IN  /\ p.boundary.at >= i
                     /\ p.bodyStart >= i + len
                     /\ ~BeginsBlock(SliceFrom(raw, i + len)) =>
                           /\ p.boundary = [at |-> i, len |-> len]
                           /\ p.headersStr = Slice(raw, 0, i)
                           /\ p.body = SliceFrom(raw, i + len)

\* C14 witness: a buffer whose first LFLF starts before its first CRLFCRLF
\* was split at the LFLF, the CRLFCRLF staying in the body.
C14_Witness ==
    /\ Parsed
    /\ call.arg = <<"h", "i", "\n", "\n", "h", "i", "\r", "\n", "\r", "\n">>
    /\ ret.val.boundary = [at |-> 2, len |-> 2]
    /\ ret.val.headersStr = <<"h", "i">>
    /\ ret.val.body = <<"h", "i", "\r", "\n", "\r", "\n">>

\* What the header blocks of the inputs hold.
ExpectedBlocks ==
    { [block |-> <<"H", "T", "T", "P", "/", "1", ".", "1", " ", "1", "0", "0", " ", "C", "o", "n", "t", "i", "n", "u", "e">>, statusCode |-> 100, headers |-> <<>>],
      [block |-> <<"H", "T", "T", "P", "/", "1", ".", "1", " ", "1", "0", "3", " ", "E">>, statusCode |-> 103, headers |-> <<>>],
      [block |-> <<"H", "T", "T", "P", "/", "1", ".", "1", " ", "4", "0", "4", " ", "N", "F", "\r", "\n", "A", ":", " ", "b">>, statusCode |-> 404,
       headers |-> [n \in {<<"A">>} |-> <<"b">>]],
      [block |-> <<"H", "T", "T", "P", "/", "1", ".", "1", " ", "3", "0", "2", " ", "F", "\n", "A", ":", " ", "c", "\n", "A", ":", " ", " ", "d", " ">>, statusCode |-> 302,
       headers |-> [n \in {<<"A">>} |-> <<"d">>]],
      [block |-> <<"h", "i">>, statusCode |-> 200, headers |-> <<>>] }

\* C15: when the bytes right after a detected boundary begin a new HTTP/
\* status line of a further header block, parse skips the response before it
\* and re-anchors on that block, until the bytes after the boundary are a
\* true body start.  The block parse ends on lies in the buffer, holds no
\* boundary and is followed by one; the body is everything after that
\* boundary and begins no further header block; bytes are skipped only in
\* front of a block that begins a status line; and the status and headers
\* returned are those of that block.
C15_InterimSkipped ==
    (Parsed /\ BoundaryStarts(call.arg) # {}) =>
        LET raw    == call.arg
            p      == ret.val
            hstart == p.boundary.at - Len(p.headersStr)
            B      == BoundaryStarts(raw)
            first  == CHOOSE x \in B : \A y \in B : x <= y
            flen   == IF At(raw, first, CRLFCRLF) THEN 4 ELSE 2
        IN  /\ hstart >= 0
            /\ p.headersStr = Slice(raw, hstart, p.boundary.at)
            /\ BoundaryStarts(p.headersStr) = {}
            /\ \/ p.boundary.len = 4 /\ At(raw, p.boundary.at, CRLFCRLF)
               \/ p.boundary.len = 2 /\ At(raw, p.boundary.at, LFLF)
            /\ p.bodyStart = p.boundary.at + p.boundary.len
            /\ p.body = SliceFrom(raw, p.bodyStart)
            /\ ~BeginsBlock(p.body)
            /\ hstart > 0 =>
                  /\ StartsWith(p.headersStr, HttpSlash)
                  /\ At(raw, hstart - 4, CRLFCRLF) \/ At(raw, hstart - 2, LFLF)
            /\ BeginsBlock(SliceFrom(raw, first + flen)) => hstart >= first + flen
            /\ \A e \in ExpectedBlocks :
                  p.headersStr = e.block =>
                      p.statusCode = e.statusCode /\ p.headers = e.headers

\* C15 witness: two interim responses were skipped and the final response's
\* status, headers and body returned.
C15_Witness ==
    /\ Parsed
    /\ call.arg = <<"H", "T", "T", "P", "/", "1", ".", "1", " ", "1", "0", "0", " ", "C", "o", "n", "t", "i", "n", "u", "e", "\r", "\n", "\r", "\n", "H", "T", "T", "P", "/", "1", ".", "1", " ", "1", "0", "3", " ", "E", "\n", "\n", "H", "T", "T", "P", "/", "1", ".", "1", " ", "4", "0", "4", " ", "N", "F", "\r", "\n", "A", ":", " ", "b", "\r", "\n", "\r", "\n", "h", "i">>
    /\ ret.val.statusCode = 404
    /\ ret.val.headers = [n \in {<<"A">>} |-> <<"b">>]
    /\ ret.val.body = <<"h", "i">>

\* The header block parse used, the boundary it detected, the body.
Rebuilt ==
    ret.val.headersStr
    \o Slice(call.arg, ret.val.boundary.at, ret.val.boundary.at + ret.val.boundary.len)
    \o ret.val.body

\* C16 as stated: for every input buffer, the header block parse used,
\* followed by the boundary it detected, followed by the returned body, is a
\* prefix of the input bytes.
C16_PrefixReconstruction ==
    Parsed => StartsWith(call.arg, Rebuilt)

\* C16 as amended: the header block parse used, followed by the boundary it
\* detected, followed by the returned body, is a suffix of the input bytes,
\* and the whole input unless that header block begins a status line (the
\* bytes in front of it are then the interim responses skipped): no byte is
\* lost or duplicated across the header/body split.
C16_SuffixReconstruction ==
    LET EndsWith(s, p) == Len(s) >= Len(p) /\ SubSeq(s, Len(s) - Len(p) + 1, Len(s)) = p
    IN
    Parsed =>
        /\ EndsWith(call.arg, Rebuilt)
        /\ Len(Rebuilt) < Len(call.arg) => StartsWith(ret.val.headersStr, HttpSlash)
        /\ Len(ret.val.headersStr) + ret.val.boundary.len + Len(ret.val.body)
              <= Len(call.arg)

\* C16 witness: an interim response was skipped, and the final header block,
\* its boundary and the body are the rest of the input.
C16_Witness ==
    /\ Parsed
    /\ call.arg = <<"H", "T", "T", "P", "/", "1", ".", "1", " ", "1", "0", "0", " ", "C", "o", "n", "t", "i", "n", "u", "e", "\r", "\n", "\r", "\n", "H", "T", "T", "P", "/", "1", ".", "1", " ", "3", "0", "2", " ", "F", "\n", "A", ":", " ", "c", "\n", "A", ":", " ", " ", "d", " ", "\n", "\n", "h", "i", "\n">>
    /\ Rebuilt = <<"H", "T", "T", "P", "/", "1", ".", "1", " ", "3", "0", "2", " ", "F", "\n", "A", ":", " ", "c", "\n", "A", ":", " ", " ", "d", " ", "\n", "\n", "h", "i", "\n">>
    /\ ret.val.body = <<"h", "i", "\n">>


AllIn(s, class) == \A i \in 1..Len(s) : s[i] \in class

\* t is yb-<cluster>-node<N>:<port>.
IsHostPort(t) ==
    /\ StartsWith(t, <<"y", "b", "-">>)
    /\ \E k \in 4..Len(t) :
          /\ At(t, k, <<"-", "n", "o", "d", "e">>)
          /\ AllIn(Slice(t, 3, k), ClusterChars)
          /\ \E c \in (k + 6)..(Len(t) - 2) :
                /\ t[c + 1] = ":"
                /\ AllIn(Slice(t, k + 5, c), Digits)
                /\ AllIn(SliceFrom(t, c + 1), Digits)

\* Where in s a //yb-<cluster>-node<N>:<port> address starts.
AddressStarts(s) ==
    {i \in 0..Len(s) :
        At(s, i, <<"/", "/">>) /\ \E j \in (i + 2)..Len(s) : IsHostPort(Slice(s, i + 2, j))}

\* The address that starts at i, with all the digits of its port.
AddressAt(s, i) ==
    LET ends == {j \in (i + 2)..Len(s) : IsHostPort(Slice(s, i + 2, j))}
    IN  Slice(s, i + 2, CHOOSE j \in ends : \A e \in ends : e <= j)

\* The (start, end) of the attribute openers in s.
AttrOpenersIn(s) ==
    LET \* t is an href, src or action attribute up to its opening quote.
        IsAttrOpener(t) ==
            \E n \in {3, 4, 6} :
                /\ ToLower(Slice(t, 0, n)) \in { <<"h", "r", "e", "f">>, <<"s", "r", "c">>, <<"a", "c", "t", "i", "o", "n">> }
                /\ Len(t) >= n + 2
                /\ t[Len(t)] \in QuoteChars
                /\ \E e \in n..(Len(t) - 2) :
                      /\ t[e + 1] = "="
                      /\ AllIn(Slice(t, n, e), Whitespace)
                      /\ AllIn(Slice(t, e + 1, Len(t) - 1), Whitespace)
    IN
    {ij \in (0..Len(s)) \X (1..Len(s)) :
        /\ ij[1] < ij[2]
        /\ s[ij[2]] \in QuoteChars
        /\ IsAttrOpener(Slice(s, ij[1], ij[2]))}

RewroteHtml == call.fn = "rewriteHtml" /\ ret.done

\* C17: for every HTML body that holds no //yb-<cluster>-node<N>:<port>
\* address (with or without a scheme) and no href, src or action attribute
\* whose quoted value starts with /, rewriteHtml returns the body unchanged.
C17_NoReferenceNoChange ==
    LET HasRootRelativeAttr(s) == \E ij \in AttrOpenersIn(s) : At(s, ij[2], <<"/">>)
    IN
    (RewroteHtml /\ AddressStarts(call.arg) = {} /\ ~HasRootRelativeAttr(call.arg)) =>
        ret.val = call.arg

\* C17 witness: a body with a relative href and the beginning of an address
\* came back unchanged.
C17_Witness ==
    /\ RewroteHtml
    /\ call.arg = <<"h", "r", "e", "f", "=", "\"", "x", "\"", "/", "/", "y", "b", "-">>
    /\ ret.val = call.arg

\* The occurrences of p in s.
Occurrences(s, p) == {i \in 0..Len(s) : At(s, i, p)}

\* C18: for every HTML body, every (https?:)?//<container>:<port> is replaced,
\* scheme included, by <proxyOrigin>/proxy/<container>:<port>; the output
\* holds no bare //<container>:<port>; and an attribute whose value begins
\* with such a reference has <proxyOrigin>/proxy/<container>:<port> right
\* after its opening quote, with no /proxy/<currentTarget>/ in between.
C18_InternalReplaced ==
    RewroteHtml =>
        LET html == call.arg
            out  == ret.val
            via  == ProxyOrigin \o <<"/", "p", "r", "o", "x", "y", "/">>
        IN  /\ AddressStarts(out) = {}
            /\ Cardinality(Occurrences(out, via)) = Cardinality(AddressStarts(html))
            /\ \A i \in AddressStarts(html) : Occurrences(out, via \o AddressAt(html, i)) # {}
            /\ Occurrences(html, <<"h", "t", "t", "p", "s", ":", "h", "t", "t", "p", "s", ":">>) = {} =>
                  Occurrences(out, <<"h", "t", "t", "p", "s", ":">> \o via) = {}
            /\ \A ij \in AttrOpenersIn(html) :
                  \A sch \in { <<>>, <<"h", "t", "t", "p", "s", ":">> } :
                      (At(html, ij[2], sch) /\ ij[2] + Len(sch) \in AddressStarts(html)) =>
                          Occurrences(out, Slice(html, ij[1], ij[2]) \o via
                                           \o AddressAt(html, ij[2] + Len(sch))) # {}

\* C18 witness: the scheme-relative internal address of an href was replaced
\* and not prefixed.
C18_Witness ==
    /\ RewroteHtml
    /\ call.arg = <<"h", "r", "e", "f", "=", "\"", "/", "/", "y", "b", "-", "d", "e", "m", "o", "-", "n", "o", "d", "e", "2", ":", "9", "0", "0", "0", "/", "\"">>
    /\ ret.val = <<"h", "r", "e", "f", "=", "\"", "h", "t", "t", "p", ":", "/", "/", "l", "o", "c", "a", "l", "h", "o", "s", "t", ":", "1", "5", "0", "8", "0", "/", "p", "r", "o", "x", "y", "/", "y", "b", "-", "d", "e", "m", "o", "-", "n", "o", "d", "e", "2", ":", "9", "0", "0", "0", "/", "\"">>

AttrCall == call.fn = "rewriteHtml" /\ call.open # <<>> /\ ret.done

C20_LocationRewrite ==
    (call.fn = "rewriteLocation" /\ ret.done) =>
        LET location == call.arg
        IN  \/ \E sch \in { <<>>, <<"h", "t", "t", "p", ":">>, <<"h", "t", "t", "p", "s", ":">> } :
                  StartsWith(location, sch) /\ Len(sch) \in AddressStarts(location)
            \/ IF StartsWith(location, <<"/">>) /\ ~StartsWith(location, <<"/", "p", "r", "o", "x", "y", "/">>)
               THEN ret.val = <<"/", "p", "r", "o", "x", "y", "/">> \o CurrentTarget \o location
               ELSE ret.val = location

\* C11: when the fetch command fails and the response is still open, the
\* client gets a 502 error page whose message is "Could not reach <target>: "
\* followed by the command's stderr output, or by the executor's error
\* message when stderr is empty; nothing of the captured stdout is sent.
C11_FetchError ==
    \A r \in Reqs :
        req[r].fetchOut.error =>
            LET out == req[r].fetchOut
                msg == IF Len(out.stderr) > 0 THEN out.stderr ELSE out.message
            IN  /\ res[r].statusCode = 502
                /\ res[r].kind = "error"
                /\ res[r].writableEnded
                /\ res[r].message =
                      <<"C", "o", "u", "l", "d", " ", "n", "o", "t", " ", "r", "e", "a", "c", "h", " ">> \o req[r].host \o <<":">> \o req[r].port \o <<":", " ">> \o msg
                /\ res[r].body = <<>>
                /\ ~Contains(ErrorPage(res[r].message), out.stdout)

\* C11 witness: a fetch failed with no stderr output while stdout held a
\* captured response, and the 502 carries the executor's message.
C11_Witness ==
    \E r \in Reqs :
        /\ req[r].fetchOut.error
        /\ req[r].fetchOut.stderr = <<>>
        /\ req[r].fetchOut.stdout = RawHtml
        /\ res[r].statusCode = 502
        /\ res[r].message = <<"C", "o", "u", "l", "d", " ", "n", "o", "t", " ", "r", "e", "a", "c", "h", " ", "w", "e", "b", ":", "7", "0", "0", "0", ":", " ", "C", "o", "m", "m", "a", "n", "d", " ", "f", "a", "i", "l", "e", "d">>

\* The first segment of s: what comes before its first slash.
FirstSegment(s) ==
    LET ends == {n \in 0..Len(s) :
                    /\ \A i \in 1..n : s[i] # "/"
                    /\ n = Len(s) \/ s[n + 1] = "/"}
    IN  Slice(s, 0, CHOOSE n \in ends : TRUE)

\* url is /proxy/<host>:<port> or /proxy/<host>:<port>/<path>, with a
\* non-empty host and a port made of digits.
IsProxyShape(url) ==
    /\ StartsWith(url, <<"/", "p", "r", "o", "x", "y", "/">>)
    /\ LET seg == FirstSegment(SliceFrom(url, 7))
       IN  \E c \in 2..(Len(seg) - 1) :
              /\ seg[c] = ":"
              /\ \A i \in (c + 1)..Len(seg) : seg[i] \in Digits

\* What handleProxy does with each of them.
ShapesRouted ==
    LET \* Urls of every shape the routing tells apart.
        ShapedUrls ==
            Urls \cup
            { <<>>, <<"/", "i", "n", "d", "e", "x", ".", "h", "t", "m", "l">>, <<"/", "p", "r", "o", "x", "y">>, <<"/", "p", "r", "o", "x", "y", "/">>, <<"/", "p", "r", "o", "x", "y", "w", "e", "b", ":", "7", "0", "0", "0", "/">>, <<"/", "P", "R", "O", "X", "Y", "/", "w", "e", "b", ":", "7", "0", "0", "0", "/">>,
              <<"/", "x", "/", "p", "r", "o", "x", "y", "/", "w", "e", "b", ":", "7", "0", "0", "0", "/">>, <<"/", "p", "r", "o", "x", "y", "/", "w", "e", "b">>, <<"/", "p", "r", "o", "x", "y", "/", "w", "e", "b", "/">>, <<"/", "p", "r", "o", "x", "y", "/", "w", "e", "b", "/", "x", ":", "7", "0", "0", "0">>,
              <<"/", "p", "r", "o", "x", "y", "/", ":", "7", "0", "0", "0", "/">>, <<"/", "p", "r", "o", "x", "y", "/", "w", "e", "b", ":">>, <<"/", "p", "r", "o", "x", "y", "/", "w", "e", "b", ":", "/", "x">>, <<"/", "p", "r", "o", "x", "y", "/", "w", "e", "b", ":", "7", "0", "a", "0", "/", "x">>,
              <<"/", "p", "r", "o", "x", "y", "/", "w", "e", "b", ":", "7", "0", "0", "0", "x">>, <<"/", "p", "r", "o", "x", "y", "/", "w", "e", "b", ":", "7", "0", "0", "0", "?", "a", "=", "1">>, <<"/", "p", "r", "o", "x", "y", "/", "w", "e", "b", ":", " ", "7", "0", "0", "0", "/">>, <<"/", "p", "r", "o", "x", "y", "/", "w", "e", "b", ":", "-", "1", "/">>,
              <<"/", "p", "r", "o", "x", "y", "/", "/", "w", "e", "b", ":", "7", "0", "0", "0">>, <<"/", "f", "a", "v", "i", "c", "o", "n", ".", "i", "c", "o", "/">>, <<"/", "f", "a", "v", "i", "c", "o", "n", ".", "p", "n", "g">>,
              <<"/", "p", "r", "o", "x", "y", "/", "w", "e", "b", ":", "7", "0", "0", "0">>, <<"/", "p", "r", "o", "x", "y", "/", "w", "e", "b", ":", "7", "0", "0", "0", "/", "a", "/", "b", "?", "c", "=", ":", "d">>, <<"/", "p", "r", "o", "x", "y", "/", "a", ":", "b", ":", "7", "0", "0", "0", "/">>, <<"/", "p", "r", "o", "x", "y", "/", ":", ":", "1", "/">>,
              <<"/", "p", "r", "o", "x", "y", "/", "y", "b", "-", "d", "e", "m", "o", "-", "n", "o", "d", "e", "1", ":", "0", "/">> }
    IN
    \A url \in ShapedUrls \ FaviconUrls :
        IF IsProxyShape(url)
        THEN /\ ParsePath(url).route = "proxy"
             /\ <<"/", "p", "r", "o", "x", "y", "/">> \o ParsePath(url).host \o <<":">> \o ParsePath(url).port
                   = <<"/", "p", "r", "o", "x", "y", "/">> \o FirstSegment(SliceFrom(url, 7))
        ELSE ParsePath(url) = NoTarget("landing")

\* C12: a request, other than /favicon.ico, /favicon.svg and OPTIONS, whose
\* path does not start with /proxy/, or whose first segment after /proxy/ has
\* no colon after a non-empty host, has an empty port, or has a port that is
\* not purely digits, is routed to the landing page: it arms no timer, takes
\* part in no resolution, issues no fetch, its arrival leaves the cache, the
\* in-flight table and the runtime queries as they were, and the only
\* response it is given is the 200 landing page, written when the cluster
\* listing completes unless the client has gone away by then.
C12_LandingPage ==
    /\ [](/\ ShapesRouted
          /\ \A r \in Reqs :
                /\ (req[r].url # <<>> /\ req[r].url \notin FaviconUrls) =>
                      (req[r].route = "landing" <=> ~IsProxyShape(req[r].url))
                /\ req[r].route = "landing" =>
                      /\ req[r].st \in {"landing", "closed"}
                      /\ req[r].timer = "none"
                      /\ req[r].src = "none" /\ req[r].qid = 0 /\ ~req[r].resolved
                      /\ req[r].fetches = 0 /\ req[r].fetchOut = NoOutcome
                      /\ res[r].headersSent =>
                            /\ res[r].statusCode = 200 /\ res[r].kind = "landing"
                            /\ req[r].st = "closed"
                      /\ req[r].st = "closed" => res[r].writableEnded \/ res[r].destroyed
                      /\ Len(wlog[r]) <= 1 /\ \A i \in 1..Len(wlog[r]) : ~wlog[r][i].late)
    /\ [][\A r \in Reqs :
            (req[r].st = "free" /\ req'[r].route = "landing") =>
                /\ Len(queries') = Len(queries)
                /\ \A q \in 1..Len(queries) : queries'[q].running = queries[q].running
                /\ inflightLookups' = inflightLookups
                /\ containerCache' = containerCache]_vars

\* C12 witness: while a lookup for another request was running, a request for
\* /proxy/web:7a/ was routed to the landing page without a timer and without
\* joining that lookup.
C12_Witness ==
    \E r, s \in Reqs :
        /\ req[r].url = <<"/", "p", "r", "o", "x", "y", "/", "w", "e", "b", ":", "7", "a", "/">>
        /\ req[r].route = "landing" /\ req[r].st = "landing"
        /\ req[r].timer = "none" /\ req[r].qid = 0
        /\ req[s].st = "lookup" /\ req[s].host = HostWeb
        /\ Len(queries) = 1 /\ queries[1].running

\* Request r was given a container on an open response and its exec did not
\* throw: it reached the fetch step.
ReachedFetch(r) ==
    /\ req[r].resolved /\ Truthy(req[r].got) /\ ~req[r].gotDone
    /\ ~(Len(wlog[r]) >= 1 /\ wlog[r][1].via = "reject")

ForwardedCall == call.fn = "forward" /\ ret.done /\ ~ret.val.thrown

\* The headers of the response sent to the client, by lower-cased name.
Sent == HeaderMap(CorsHeaders \o ret.val.head, <<>>)

\* The upstream headers named `lname` in some letter case.
Named(lname) == {i \in 1..Len(call.hdrs) : ToLower(call.hdrs[i].name) = lname}

\* C21: when the upstream's final response has a 3xx status and a Location
\* header (its name in any letter case) holding an absolute internal address,
\* the forwarded response carries Location = <proxyOrigin>/proxy/<host:port>
\* <rest of the location> and no header holding the original address.
C21_LocationForwarded ==
    LET Schemes == { <<>>, <<"h", "t", "t", "p", ":">>, <<"h", "t", "t", "p", "s", ":">> }
    IN
    LET \* <proxyOrigin>/proxy/<host:port><rest> for such an address.
        ViaProxy(v) ==
            LET sch == CHOOSE x \in Schemes : StartsWith(v, x) /\ Len(x) \in AddressStarts(v)
            IN  ProxyOrigin \o <<"/", "p", "r", "o", "x", "y", "/">> \o SliceFrom(v, Len(sch) + 2)
    IN
    LET \* v is an absolute internal address: (https?:)?//yb-<cluster>-node<N>:<port>...
        InternalLocation(v) ==
            \E sch \in Schemes : StartsWith(v, sch) /\ Len(sch) \in AddressStarts(v)
    IN
    (ForwardedCall /\ call.open = <<"3", "0", "2">>) =>
        \A i \in Named(<<"l", "o", "c", "a", "t", "i", "o", "n">>) :
            (Named(<<"l", "o", "c", "a", "t", "i", "o", "n">>) = {i} /\ InternalLocation(call.hdrs[i].value)) =>
                /\ <<"l", "o", "c", "a", "t", "i", "o", "n">> \in DOMAIN Sent
                /\ Sent[<<"l", "o", "c", "a", "t", "i", "o", "n">>].value = ViaProxy(call.hdrs[i].value)
                /\ \A k \in DOMAIN Sent : Sent[k].value # call.hdrs[i].value

C23_HtmlOnlyRewritten ==
    LET \* The upstream response declares an HTML content type.
        UpstreamHtml ==
            \E i \in Named(<<"c", "o", "n", "t", "e", "n", "t", "-", "t", "y", "p", "e">>) : Contains(call.hdrs[i].value, <<"t", "e", "x", "t", "/", "h", "t", "m", "l">>)
    IN
    LET PublicCache == <<"p", "u", "b", "l", "i", "c", ",", " ", "m", "a", "x", "-", "a", "g", "e", "=", "3", "6", "0", "0">>
    IN
    LET \* The sent response has the Cache-Control header of static assets.
        CacheAdded ==
            <<"c", "a", "c", "h", "e", "-", "c", "o", "n", "t", "r", "o", "l">> \in DOMAIN Sent /\ Sent[<<"c", "a", "c", "h", "e", "-", "c", "o", "n", "t", "r", "o", "l">>].value = PublicCache
    IN
    (ForwardedCall /\ Cardinality(Named(<<"c", "o", "n", "t", "e", "n", "t", "-", "t", "y", "p", "e">>)) <= 1) =>
        /\ UpstreamHtml <=> ret.val.body = rewriteHtml(call.value, ProxyOrigin, CurrentTarget)
        /\ UpstreamHtml <=> ~CacheAdded
        /\ ~UpstreamHtml => ret.val.body = call.value

\* The headers of a response as sent: the CORS headers, which the listener
\* sets on every response before it routes the request, then the headers of
\* writeHead.
SentHeaders(rs) == HeaderMap(CorsHeaders \o rs.head, <<>>)

\* C24: every response the listener sends (proxied content, landing page,
\* favicon, error pages, 204) carries the permissive CORS headers with
\* Access-Control-Allow-Origin: *, and every OPTIONS request is answered 204
\* without any resolution, fetch or cluster listing.
C24_CorsEverywhere ==
    LET \* The response carries the three CORS headers as the listener set them.
        Permissive(rs) ==
            \A i \in 1..Len(CorsHeaders) :
                SentHeaders(rs)[ToLower(CorsHeaders[i].name)] = CorsHeaders[i]
    IN
    \A r \in Reqs :
        /\ res[r].headersSent => Permissive(res[r])
        /\ req[r].route = "options" =>
               /\ res[r].statusCode = 204 /\ res[r].writableEnded
               /\ req[r].st = "closed" /\ req[r].src = "none"
               /\ req[r].qid = 0 /\ req[r].fetches = 0

\* C25: a landing-page request is answered with a 200 HTML page for every
\* outcome of the listing command, and when the command fails, returns
\* nothing, or returns only containers that do not match the naming
\* convention, the page shows the empty state with zero clusters.
C25_LandingTolerant ==
    [][LET \* The containers the listing printed, one per non-empty line.
           ListedContainers(stdout) ==
               LET lines == SelectSeq(Split(Trim(stdout), <<"\n">>), LAMBDA l : l # <<>>)
               IN  {Split(lines[i], <<"\t">>)[1] : i \in 1..Len(lines)}
           \* The listing failed, or printed nothing, or printed only
           \* containers that do not follow the naming convention.
           NothingListed(out) ==
               \/ out.err
               \/ \A c \in ListedContainers(out.stdout) : extractClusterName(c) = Null
           \* The response is the landing page, sent as a 200 HTML page.
           LandingPage(rs) ==
               /\ rs.kind = "landing" /\ rs.writableEnded
               /\ rs.statusCode = 200
               /\ Contains(SentHeaders(rs)[<<"c", "o", "n", "t", "e", "n", "t", "-", "t", "y", "p", "e">>].value, <<"t", "e", "x", "t", "/", "h", "t", "m", "l">>)
       IN  \A r \in Reqs, o \in ListingOutcomes :
               (LandingDone(r, listRunningClustersDetailed(o)) /\ ~isResponseDone(res[r])) =>
                   /\ LandingPage(res'[r])
                   /\ NothingListed(o) => res'[r].clusters = 0]_vars

Word(text) == [op |-> FALSE, text |-> text]

Op(text) == [op |-> TRUE, text |-> text]

\* The tokens read so far, with the word being read closed.
Flush(st) == IF st.inWord THEN Append(st.toks, Word(st.cur)) ELSE st.toks

\* How /bin/sh -c, which exec runs, reads a command line.  Outside quotes a
\* blank ends a word, an operator character is a token of its own, a
\* backslash makes the next character literal, and $ and the pattern
\* characters start an expansion.  Between single quotes every character is
\* literal.  Between double quotes $ still starts an expansion and a
\* backslash escapes $, " and \ only.  (The backquote, which starts a
\* substitution like $( does, is not among the inputs.)
\* The reader after character c.
ShellStep(st, c) ==
    LET Blanks == {" ", "\t"}
        OpChars == {"|", ";", "&", "<", ">", "(", ")", "\n"}
        ExpandChars == {"$", "*", "?", "["}
    IN
    CASE st.mode = "single" ->
           IF c = "'" THEN [st EXCEPT !.mode = "plain"]
           ELSE [st EXCEPT !.cur = Append(@, c)]
      [] st.mode = "double" ->
           IF c = "\"" THEN [st EXCEPT !.mode = "plain"]
           ELSE IF c = "\\" THEN [st EXCEPT !.mode = "dquoteEscaped"]
           ELSE [st EXCEPT !.cur = Append(@, c), !.expands = @ \/ c = "$"]
      [] st.mode = "dquoteEscaped" ->
           IF c \in {"$", "\"", "\\", "\n"}
           THEN [st EXCEPT !.mode = "double", !.cur = Append(@, c)]
           ELSE [st EXCEPT !.mode = "double", !.cur = @ \o <<"\\", c>>]
      [] st.mode = "escaped" ->
           [st EXCEPT !.mode = "plain", !.cur = Append(@, c)]
      [] OTHER ->
           IF c = "'" THEN [st EXCEPT !.mode = "single", !.inWord = TRUE]
           ELSE IF c = "\"" THEN [st EXCEPT !.mode = "double", !.inWord = TRUE]
           ELSE IF c = "\\" THEN [st EXCEPT !.mode = "escaped", !.inWord = TRUE]
           ELSE IF c \in Blanks
           THEN [st EXCEPT !.toks = Flush(st), !.cur = <<>>, !.inWord = FALSE]
           ELSE IF c \in OpChars
           THEN [st EXCEPT !.toks = Append(Flush(st), Op(<<c>>)), !.cur = <<>>,
                           !.inWord = FALSE]
           ELSE [st EXCEPT !.cur = Append(@, c), !.inWord = TRUE,
                           !.expands = @ \/ c \in ExpandChars \/ (c = "#" /\ ~st.inWord)]

\* The reader after the characters lo..hi of s, read by halves to keep the
\* evaluation shallow (the test of st.mode has TLC compute the state reached
\* so far before it descends).
RECURSIVE ShellLex(_, _, _, _)
ShellLex(s, lo, hi, st) ==
    LET ShellModes == {"plain", "single", "double", "escaped", "dquoteEscaped"}
    IN
    IF lo > hi \/ st.mode \notin ShellModes THEN st
    ELSE IF lo = hi THEN ShellStep(st, s[lo])
    ELSE LET mid == (lo + hi) \div 2
         IN  ShellLex(s, mid + 1, hi, ShellLex(s, lo, mid, st))

\* What the shell makes of command line `cmd`: its words and operators,
\* whether it expands anything, and `ok` when no quote or backslash is left
\* open at the end.
ShellRead(cmd) ==
    LET \* The reader before the first character: `mode` is "plain", "single",
        \* "double", or "escaped" / "dquoteEscaped" after a backslash; `cur` is the
        \* word being read; `expands` tells that the shell performs an expansion or
        \* skips a comment.
        ShellStart ==
            [mode |-> "plain", cur |-> <<>>, inWord |-> FALSE, toks |-> <<>>, expands |-> FALSE]
    IN
    LET st == ShellLex(cmd, 1, Len(cmd), ShellStart)
    IN  [toks |-> Flush(st), expands |-> st.expands, ok |-> st.mode = "plain"]

\* A command line read as these words and operators, each taken literally.
Literal(toks) == [toks |-> toks, expands |-> FALSE, ok |-> TRUE]

\* A fetch command was built for a request url that names a target.
FetchBuilt == call.fn = "fetchCommand" /\ ret.done /\ ret.val # <<>>

\* C26: for every request path and query the shell reads the fetch command
\* as docker exec <container> curl with its fixed options and exactly one
\* more argument, the internal URL of the request, character for character;
\* it performs no expansion and reads no operator.
C26_OneUrlArgument ==
    LET \* The internal URL of the request: the url without the /proxy/ prefix, a
        \* bare target standing for its root.
        InternalUrl ==
            LET rest == SliceFrom(call.arg, Len(PREFIX))
            IN  <<"h", "t", "t", "p", ":", "/", "/">> \o rest \o (IF Contains(rest, <<"/">>) THEN <<>> ELSE <<"/">>)
    IN
    FetchBuilt =>
        ShellRead(ret.val) =
            Literal(<< Word(<<"d", "o", "c", "k", "e", "r">>), Word(<<"e", "x", "e", "c">>), Word(HostDemo1), Word(<<"c", "u", "r", "l">>),
                       Word(<<"-", "s", "S">>), Word(<<"-", "i">>), Word(<<"-", "-", "c", "o", "n", "n", "e", "c", "t", "-", "t", "i", "m", "e", "o", "u", "t">>), Word(<<"5">>),
                       Word(<<"-", "-", "m", "a", "x", "-", "t", "i", "m", "e">>), Word(<<"3", "0">>), Word(InternalUrl) >>)

\* A command was built for a url whose path holds a single quote, a
\* substitution and a separator.
C26_Witness ==
    /\ FetchBuilt
    /\ Contains(call.arg, <<"'">>) /\ Contains(call.arg, <<"$", "(", "i", "d", ")">>) /\ Contains(call.arg, <<";", "i", "d">>)

\* C27: for every target host a request can name, the shell reads the
\* command of the resolver as the read-only listing docker ps --filter
\* name=^<prefix> --format {{.Names}} | head -1, the prefix being
\* yb-<cluster>-node for a host of the naming convention and yb- otherwise,
\* and interprets no text of the host: no expansion, no further operator.
C27_ReadOnlyListing ==
    LET \* A lookup command was built for a request url that names a target.
        LookupBuilt == call.fn = "lookupCommand" /\ ret.done /\ ret.val # <<>>
    IN
    LET \* The listing of the running containers whose name starts with `prefix`,
        \* cut to its first line, as the shell should read it.
        FilteredListing(prefix) ==
            Literal(<< Word(<<"d", "o", "c", "k", "e", "r">>), Word(<<"p", "s">>), Word(<<"-", "-", "f", "i", "l", "t", "e", "r">>), Word(<<"n", "a", "m", "e", "=", "^">> \o prefix),
                       Word(<<"-", "-", "f", "o", "r", "m", "a", "t">>), Word(<<"{", "{", ".", "N", "a", "m", "e", "s", "}", "}">>), Op(<<"|">>), Word(<<"h", "e", "a", "d">>), Word(<<"-", "1">>) >>)
    IN
    LET \* The host the request url names: what stands between /proxy/ and the last
        \* colon in front of the port.
        NamedHost ==
            LET rest == SliceFrom(call.arg, Len(PREFIX))
            IN  SubSeq(rest, 1, Len(rest) - Len(<<":", "7", "0", "0", "0", "/">>))
    IN
    LookupBuilt =>
        LET cluster == extractClusterName(NamedHost)
        IN  ShellRead(ret.val) =
                FilteredListing(IF cluster = Null THEN <<"y", "b", "-">>
                                ELSE <<"y", "b", "-">> \o cluster.str \o <<"-", "n", "o", "d", "e">>)

\* C28: at every step boundary a key that has an in-flight lookup has no
\* entry in the resolution cache and a runtime query for that key is
\* running, and a step removes the in-flight entry of a key exactly when it
\* stores a result for that key: the two are never seen apart.
C28_InflightExcludesCache ==
    /\ [](\A k \in DOMAIN inflightLookups :
             /\ k \notin DOMAIN containerCache
             /\ inflightLookups[k] \in RunningQueries(k))
    /\ [][\A k \in Keys :
             (k \in DOMAIN inflightLookups /\ k \notin DOMAIN inflightLookups')
                 <=> (k \notin DOMAIN containerCache /\ k \in DOMAIN containerCache')]_vars

\* C28 witness: a query is in flight for a key that an earlier query had
\* resolved, the entry that query stored having been dropped at its expiry,
\* while the other key is cached.
C28_Witness ==
    \E k \in DOMAIN inflightLookups :
        /\ LastDone(k) # 0
        /\ \E r \in Live : req[r].st = "lookup" /\ req[r].qid = inflightLookups[k]
        /\ \E o \in DOMAIN containerCache : o # k

\* C29: the step in which a runtime query completes stores its result in
\* the cache with a full TTL and removes the key's in-flight entry, whatever
\* has become of the requests that waited on it; and a request that arrives
\* while the key's entry has not expired is given the entry's value and
\* starts no query.
C29_CompletionAlwaysStores ==
    [][LET \* Query q completes in this step.
           Completes(q) == queries[q].running /\ ~queries'[q].running
           \* Request r arrives in this step and names a target.
           Arrives(r) == req[r].st = "free" /\ req'[r].route = "proxy"
       IN  /\ \A q \in QueryIds :
                  Completes(q) =>
                      /\ queries[q].key \in DOMAIN containerCache'
                      /\ containerCache'[queries[q].key] =
                            [value |-> queries'[q].result, expiry |-> now + CACHE_TTL_MS]
                      /\ queries[q].key \notin DOMAIN inflightLookups'
           /\ \A r \in Reqs :
                  LET k == CacheKey(req'[r].host)
                  IN  (Arrives(r) /\ CacheFresh(containerCache, k, now)) =>
                          /\ req'[r].src = "hit" /\ req'[r].resolved
                          /\ req'[r].got = containerCache[k].value
                          /\ Len(queries') = Len(queries)
                          /\ inflightLookups' = inflightLookups]_vars

\* C29 witness: a query found a container in this step, its result is
\* cached, and every request that waited on it had its response finished by
\* then, one by the timeout and one by a disconnect.
C29_Witness ==
    \E k \in DOMAIN containerCache :
        LET q == LastDone(k)
            waited == {r \in Live : req[r].qid = q /\ req[r].src \in {"new", "join"}}
        IN  /\ q # 0 /\ queries[q].doneAt = now
            /\ Truthy(containerCache[k].value)
            /\ \A r \in waited : req[r].resolved /\ req[r].gotDone
            /\ \E r \in waited : res[r].writableEnded /\ res[r].statusCode = 504
            /\ \E r \in waited : res[r].destroyed

\* C30: when the container resolution of a request completes and the
\* response of the request is already finished, the proxy leaves no timer of
\* the request armed, issues no fetch command for it and writes nothing.
C30_NoFetchWhenFinished ==
    [][LET \* The resolution of request r, which was waiting on a lookup,
           \* completes in this step.
           Resolves(r) == req[r].st = "lookup" /\ ~req[r].resolved /\ req'[r].resolved
           \* The response has been ended (the 504 of the timeout) or its
           \* client has gone away.
           AlreadyFinished(rs) == rs.writableEnded \/ rs.destroyed
       IN  \A r \in Reqs :
               (Resolves(r) /\ AlreadyFinished(res[r])) =>
                   /\ req'[r].timer \in {"cleared", "fired"}
                   /\ req'[r].fetches = 0 /\ req'[r].st = "closed"
                   /\ res'[r] = res[r] /\ wlog'[r] = wlog[r]]_vars

\* C30 witness: a lookup found a container for a request whose client had
\* gone away; the timer is cleared and no fetch was issued.
C30_Witness ==
    \E r \in Live :
        /\ req[r].resolved /\ req[r].gotDone /\ Truthy(req[r].got)
        /\ res[r].destroyed /\ ~res[r].writableEnded
        /\ req[r].timer = "cleared" /\ req[r].fetches = 0

====
